---- MODULE Spec2Model ----
(***************************************************************************)
(* A model of the posthub backend's reaction (like/dislike) engine, its     *)
(* comments and comment tree builder, and its post detail with the view    *)
(* tracker, translated from src/app/crud and src/app/routers.              *)
(* Every storage call (an "await" on the ORM) is one atomic step, so that  *)
(* requests handled by concurrent tasks interleave exactly at those calls. *)
(***************************************************************************)
EXTENDS Integers, Sequences, FiniteSets, TLC

\* ------------------------------------------------------------------ bounds
MaxUsers == 2        \* user ids 1..MaxUsers
MaxPosts == 1        \* post ids ever handed out by the post id sequence
MaxReqs == 2         \* request tasks in flight at the same time
MaxLikeId == 3       \* like ids ever handed out by the likes id sequence
MaxCalls == 4        \* requests a sequential client issues
MaxComments == 3     \* comment ids ever handed out by the comment id sequence
MaxTime == 1         \* the clock runs from 0 to MaxTime
MaxWriters == 2      \* comment-writing request tasks in flight at the same time
MaxIps == 2          \* client IP addresses 1..MaxIps
MaxClock == 3        \* the clock of the view tracker runs from 0 to MaxClock
MaxViewId == 3       \* view ids ever handed out by the post_view id sequence
MaxViewCalls == 3    \* post-detail requests a sequential client issues
MaxViewers == 2      \* post-detail request tasks in flight at the same time
MaxSockets == 2      \* websockets 1..MaxSockets
MaxNames == 2        \* usernames and email addresses 1..MaxNames
MaxUserId == 2       \* user ids ever handed out by the users id sequence
MaxRegs == 2         \* register request tasks in flight at the same time

Users == 1..MaxUsers
PostIds == 1..MaxPosts
ReqIds == 1..MaxReqs
WriterIds == 1..MaxWriters
Ips == 1..MaxIps
ViewerIds == 1..MaxViewers
Sockets == 1..MaxSockets
Names == 1..MaxNames
RegisterIds == 1..MaxRegs

VARIABLES
    post,       \* table "post": set of rows [id, is_active]
    post_seq,   \* last id handed out for table "post"
    likes,      \* table "likes": set of rows [id, user_id, post_id, is_like]
    like_seq,   \* last id handed out for table "likes"
    req,        \* the request tasks: position and locals of each
    log,        \* what a sequential client saw: one entry per likes request
    comment,    \* table "comment": set of rows
                \*   [id, user_id, post_id, parent_id, is_active, created]
    comment_seq, \* last id handed out for table "comment"
    now,        \* the clock that stamps created
    creq,       \* the request tasks that write comments
    treq,       \* the request task that reads a comment tree
    csnap,      \* what a sequential client saw: table "comment" when it sent
                \*   the comment request that is in flight
    view,       \* table "post_view": set of rows
                \*   [id, post_id, user_id, ip_address, created]
    view_seq,   \* last id handed out for table "post_view"
    clock,      \* the clock record_view reads, in half hours
    vreq,       \* the request tasks that read a post's detail
    vlog,       \* what a sequential client saw: one entry per detail request
    all_connections,    \* ConnectionManager.all_connections: a set of sockets
    active_connections, \* ConnectionManager.active_connections: user id ->
                        \*   set of sockets, defined on the keys of the dict
    sock,       \* each websocket endpoint: the user id it connected with ({0}
                \*   for none), or the empty set when it is not connected
    post_owner, \* the user_id column of table "post", as far as known
    nreq,       \* the request task that is sending a notification
    users,      \* table "users": set of rows [id, username, email]
    user_seq,   \* last id handed out for table "users"
    ureq        \* the request tasks that register a user

vars == <<post, post_seq, likes, like_seq, req, log,
          comment, comment_seq, now, creq, treq, csnap,
          view, view_seq, clock, vreq, vlog,
          all_connections, active_connections, sock, post_owner, nreq,
          users, user_seq, ureq>>
db == <<post, post_seq, likes, like_seq>>
lvars == <<post, post_seq, likes, like_seq, req, log>>
cvars == <<comment, comment_seq, now, creq, treq, csnap>>
vvars == <<view, view_seq, clock, vreq, vlog>>
wvars == <<all_connections, active_connections, sock, post_owner, nreq>>
uvars == <<users, user_seq, ureq>>

\* ------------------------------------------------------------ ORM queries

\* Post.filter(id=post_id).exists()
PostExists(p) == \E row \in post : row.id = p

\* the state of a post id: absent, active or inactive
PostState(p) ==
    IF ~PostExists(p) THEN "absent"
    ELSE IF \E row \in post : row.id = p /\ row.is_active THEN "active"
    ELSE "inactive"

\* Likes.filter(user_id=u, post_id=p)
UserLikes(rows, u, p) == {l \in rows : l.user_id = u /\ l.post_id = p}

\* Likes.filter(post_id=p)
PostLikes(rows, p) == {l \in rows : l.post_id = p}

\* a plausible slip: the is_like filter is left out of the count
LikesCountAll(rows, p, b) == Cardinality({l \in rows : l.post_id = p})

\* a plausible slip: the count takes the rows of the other kind
LikesCountOpposite(rows, p, b) == Cardinality({l \in rows : l.post_id = p /\ l.is_like # b})

\* Likes.filter(post_id=p, is_like=b).count()
LikesCount(rows, p, b) == Cardinality({l \in rows : l.post_id = p /\ l.is_like = b})

\* Likes.get_or_none(user_id=u, post_id=p): the rows that match. No row is
\* None and one row is the object; on more than one row the ORM raises
\* MultipleObjectsReturned
GetOrNone(u, p) == UserLikes(likes, u, p)

MultipleObjectsReturned(rows) == Cardinality(rows) > 1

\* ---------------------------------------------------------------- requests

IdleReq == [op |-> "idle", pc |-> "idle", user_id |-> 0, post_id |-> 0,
            is_like |-> FALSE, existing |-> {}, liked |-> FALSE,
            likes_count |-> 0, dislikes_count |-> 0, status |-> 0]

Idle(r) == req[r].op = "idle"

\* a new request is handled by the first free task
FreeTask(r) == Idle(r) /\ \A q \in ReqIds : q < r => ~Idle(q)
AllIdle == \A r \in ReqIds : Idle(r)

\* the request leaves with an HTTP status
Leave(r, code) == [req[r] EXCEPT !.pc = "done", !.status = code]

\* POST /likes/{post_id}/toggle arrives
StartToggle(r, u, p, x) ==
    /\ FreeTask(r)
    /\ req' = [req EXCEPT ![r] = [IdleReq EXCEPT !.op = "toggle", !.pc = "router_check",
                                   !.user_id = u, !.post_id = p, !.is_like = x]]
    /\ UNCHANGED db

\* POST /likes/{post_id} arrives
StartCreate(r, u, p, x) ==
    /\ FreeTask(r)
    /\ req' = [req EXCEPT ![r] = [IdleReq EXCEPT !.op = "create", !.pc = "router_check",
                                   !.user_id = u, !.post_id = p, !.is_like = x]]
    /\ UNCHANGED db

\* the router's existence check: 404 when the post is missing
RouterCheck(r) ==
    /\ req[r].pc = "router_check"
    /\ req' = [req EXCEPT ![r] =
                 IF PostExists(req[r].post_id)
                 THEN [req[r] EXCEPT !.pc = "crud_check"]
                 ELSE Leave(r, 404)]
    /\ UNCHANGED db

\* the CRUD function's own existence check: ValueError, which the router
\* turns into 400
CrudCheck(r) ==
    /\ req[r].pc = "crud_check"
    /\ req' = [req EXCEPT ![r] =
                 IF PostExists(req[r].post_id)
                 THEN [req[r] EXCEPT !.pc = IF req[r].op = "toggle"
                                            THEN "get_existing" ELSE "like_exists"]
                 ELSE Leave(r, 400)]
    /\ UNCHANGED db

\* toggle_like: existing = await Likes.get_or_none(...)
ToggleGetExisting(r) ==
    /\ req[r].pc = "get_existing"
    /\ LET e == GetOrNone(req[r].user_id, req[r].post_id) IN
       req' = [req EXCEPT ![r] =
                 IF MultipleObjectsReturned(e)
                 THEN Leave(r, 500)
                 ELSE [req[r] EXCEPT !.pc = "mutate", !.existing = e]]
    /\ UNCHANGED db

\* a plausible slip: the is_like argument is dropped and the column default
\* (True) is stored
NewLikeDefault(u, p, x) == [id |-> like_seq + 1, user_id |-> u, post_id |-> p, is_like |-> TRUE]

\* Likes(user_id=u, post_id=p, is_like=x), saved: the new row, under the next
\* id of the sequence
NewLike(u, p, x) == [id |-> like_seq + 1, user_id |-> u, post_id |-> p, is_like |-> x]

\* a plausible slip: the delete is never issued
DeleteRowSkipped(rows, e) == rows

\* await existing.delete(): DELETE FROM likes WHERE id = e.id
DeleteRow(rows, e) == {l \in rows : l.id # e.id}

\* a plausible slip: the changed object is never saved
UpdateRowSkipped(rows, e, x) == rows

\* existing.is_like = x; await existing.save(): UPDATE likes SET ... WHERE
\* id = e.id, every column written from the object in memory
UpdateRow(rows, e, x) ==
    {IF l.id = e.id
     THEN [id |-> e.id, user_id |-> e.user_id, post_id |-> e.post_id, is_like |-> x]
     ELSE l : l \in rows}

\* toggle_like: the delete / save of the existing row, or the save of a new one
ToggleMutate(r) ==
    /\ req[r].pc = "mutate"
    /\ LET existing == req[r].existing
           e == CHOOSE l \in existing : TRUE
           u == req[r].user_id
           p == req[r].post_id
           x == req[r].is_like
       IN
       IF existing # {}
       THEN IF e.is_like = x
            THEN \* same action: remove the like/dislike
                 /\ likes' = DeleteRow(likes, e)
                 /\ req' = [req EXCEPT ![r].pc = "count_likes", ![r].liked = FALSE]
                 /\ UNCHANGED <<post, post_seq, like_seq>>
            ELSE \* different action: switch between like/dislike
                 /\ likes' = UpdateRow(likes, e, x)
                 /\ req' = [req EXCEPT ![r].pc = "count_likes", ![r].liked = TRUE]
                 /\ UNCHANGED <<post, post_seq, like_seq>>
       ELSE IF ~PostExists(p)
            THEN \* the foreign key to post fails the insert: IntegrityError,
                 \* which the general exception handler answers with 500
                 /\ req' = [req EXCEPT ![r] = Leave(r, 500)]
                 /\ UNCHANGED db
            ELSE \* create new like
                 /\ like_seq < MaxLikeId
                 /\ likes' = likes \cup {NewLike(u, p, x)}
                 /\ like_seq' = like_seq + 1
                 /\ req' = [req EXCEPT ![r].pc = "count_likes", ![r].liked = TRUE]
                 /\ UNCHANGED <<post, post_seq>>

\* likes_count = await Likes.filter(post_id=post_id, is_like=True).count()
CountLikes(r) ==
    /\ req[r].pc = "count_likes"
    /\ req' = [req EXCEPT ![r].pc = "count_dislikes",
                          ![r].likes_count = LikesCount(likes, req[r].post_id, TRUE)]
    /\ UNCHANGED db

\* dislikes_count = await ...count(); return; the router answers 200
CountDislikes(r) ==
    /\ req[r].pc = "count_dislikes"
    /\ req' = [req EXCEPT ![r] =
                 [Leave(r, 200) EXCEPT
                    !.dislikes_count = LikesCount(likes, req[r].post_id, FALSE)]]
    /\ UNCHANGED db

\* create_like: if await Likes.filter(user_id, post_id).exists(): ValueError
CreateLikeExists(r) ==
    /\ req[r].pc = "like_exists"
    /\ req' = [req EXCEPT ![r] =
                 IF UserLikes(likes, req[r].user_id, req[r].post_id) # {}
                 THEN Leave(r, 400)
                 ELSE [req[r] EXCEPT !.pc = "like_save"]]
    /\ UNCHANGED db

\* create_like: await db_like.save(); the router answers 201
CreateLikeSave(r) ==
    /\ req[r].pc = "like_save"
    /\ IF ~PostExists(req[r].post_id)
       THEN /\ req' = [req EXCEPT ![r] = Leave(r, 500)]
            /\ UNCHANGED db
       ELSE /\ like_seq < MaxLikeId
            /\ likes' = likes \cup {NewLike(req[r].user_id, req[r].post_id, req[r].is_like)}
            /\ like_seq' = like_seq + 1
            /\ req' = [req EXCEPT ![r] = Leave(r, 201)]
            /\ UNCHANGED <<post, post_seq>>

\* the response is delivered and the task ends
Respond(r) ==
    /\ req[r].pc = "done"
    /\ req' = [req EXCEPT ![r] = IdleReq]
    /\ UNCHANGED db

\* ------------------------------------------------------------------- posts

\* create_post: the router builds PostCreate(name, title, text), is_active
\* defaults to True
CreatePost ==
    /\ post_seq < MaxPosts
    /\ post_seq' = post_seq + 1
    /\ post' = post \cup {[id |-> post_seq + 1, is_active |-> TRUE]}
    /\ UNCHANGED <<likes, like_seq, req>>

\* update_post, called by the owner or by staff, sets is_active
UpdatePost(p, active) ==
    /\ PostExists(p)
    /\ post' = {IF row.id = p THEN [row EXCEPT !.is_active = active] ELSE row : row \in post}
    /\ post' # post
    /\ UNCHANGED <<post_seq, likes, like_seq, req>>

\* what delete_post leaves alone among the comment and the view variables
cvars_kept == <<comment_seq, now, creq, treq, csnap>>
vvars_kept == <<view_seq, clock, vreq, vlog>>

\* delete_post, called by the owner or by staff; the likes, the comments and
\* the views of the post go with it (their foreign keys to post delete on
\* cascade)
DeletePost(p) ==
    /\ PostExists(p)
    /\ post' = {row \in post : row.id # p}
    /\ likes' = {l \in likes : l.post_id # p}
    /\ comment' = {c \in comment : c.post_id # p}
    /\ view' = {v \in view : v.post_id # p}
    /\ UNCHANGED <<post_seq, like_seq, req>>

\* ---------------------------------------------------------------- comments

\* the parent_id column of a comment row: the empty set is NULL (a top-level
\* comment), {c} is a reply to comment c
ParentOf(c) == c.parent_id

\* Comment.get_or_none(id=c, post_id=p)
CommentOnPost(c, p) == {x \in comment : x.id = c /\ x.post_id = p}

\* a plausible slip: the comment is fetched by id for everybody
CommentOwnedAny(c, u, is_staff) == {x \in comment : x.id = c}

\* Comment.get_or_none(id=c) for staff, Comment.get_or_none(id=c, user_id=u)
\* for anybody else
CommentOwned(c, u, is_staff) ==
    {x \in comment : x.id = c /\ (is_staff \/ x.user_id = u)}

\* the sequences that list every element of S once
Perms(S) ==
    {f \in [1..Cardinality(S) -> S] :
        \A i \in 1..Cardinality(S), j \in 1..Cardinality(S) : i # j => f[i] # f[j]}

\* .order_by(field): the rows of S in the order of created, ascending for
\* "created" and descending for "-created"; rows of equal created come in
\* whatever order the database returns them
OrderBy(S, field) ==
    {s \in Perms(S) :
        \A i \in 1..(Cardinality(S) - 1) :
           IF field = "-created"
           THEN s[i].created >= s[i + 1].created
           ELSE s[i].created <= s[i + 1].created}

\* a plausible slip: the top-level comments ordered oldest first
GetPostCommentsAscending(p) ==
    OrderBy({c \in comment : c.post_id = p /\ c.is_active /\ ParentOf(c) = {}}, "created")

\* get_post_comments: the active top-level comments of the post, newest first
GetPostComments(p) ==
    OrderBy({c \in comment : c.post_id = p /\ c.is_active /\ ParentOf(c) = {}}, "-created")

\* a plausible slip: the replies ordered newest first
GetRepliesDescending(c) ==
    OrderBy({x \in comment : ParentOf(x) = {c.id} /\ x.is_active}, "-created")

\* a plausible slip: the is_active filter is left out of the replies query
GetRepliesAnyActive(c) ==
    OrderBy({x \in comment : ParentOf(x) = {c.id}}, "created")

\* build_comment_tree: the active replies of a comment, oldest first
GetReplies(c) ==
    OrderBy({x \in comment : ParentOf(x) = {c.id} /\ x.is_active}, "created")

\* CommentWithUser(...) of a comment object, with its list of replies
Node(c, reply_list) ==
    [id |-> c.id, is_active |-> c.is_active, user_id |-> c.user_id,
     post_id |-> c.post_id, parent_id |-> c.parent_id, created |-> c.created,
     replies |-> reply_list]

\* build_comment_tree: the reply_list of the replies fetched, each reply
\* with replies=[]
ReplyList(replies) == [i \in 1..Len(replies) |-> Node(replies[i], <<>>)]

IdleCReq == [op |-> "idle", pc |-> "idle", user_id |-> 0, is_staff |-> FALSE,
             post_id |-> 0, comment_id |-> 0, parent_id |-> {},
             is_active |-> TRUE, status |-> 0]

IdleTReq == [pc |-> "idle", post_id |-> 0, comments |-> <<>>, result |-> <<>>,
             status |-> 0]

CIdle(r) == creq[r].op = "idle"

\* a new request is handled by the first free task
CFreeTask(r) == CIdle(r) /\ \A q \in WriterIds : q < r => ~CIdle(q)

CLeave(r, code) == [creq[r] EXCEPT !.pc = "done", !.status = code]

\* POST /comments/{post_id} arrives; the body may name a parent_id
StartComment(r, u, p, parent, active) ==
    /\ CFreeTask(r)
    /\ creq' = [creq EXCEPT ![r] =
                  [IdleCReq EXCEPT !.op = "comment", !.pc = "router_check",
                                   !.user_id = u, !.post_id = p,
                                   !.parent_id = parent, !.is_active = active]]
    /\ UNCHANGED <<comment, comment_seq, now, treq>>

\* POST /comments/{post_id}/reply/{parent_id} arrives: comment.parent_id is
\* overridden from the URL
StartReply(r, u, p, c, active) ==
    /\ CFreeTask(r)
    /\ creq' = [creq EXCEPT ![r] =
                  [IdleCReq EXCEPT !.op = "reply", !.pc = "router_check",
                                   !.user_id = u, !.post_id = p,
                                   !.parent_id = {c}, !.is_active = active]]
    /\ UNCHANGED <<comment, comment_seq, now, treq>>

\* the router's check of the post: 404 when it is missing
CommentRouterCheck(r) ==
    /\ creq[r].pc = "router_check"
    /\ creq' = [creq EXCEPT ![r] =
                  IF PostExists(creq[r].post_id)
                  THEN [creq[r] EXCEPT !.pc = "crud_check"]
                  ELSE CLeave(r, 404)]
    /\ UNCHANGED <<comment, comment_seq, now, treq>>

\* create_comment: its own check of the post (ValueError, answered 400)
CommentCrudCheck(r) ==
    /\ creq[r].pc = "crud_check"
    /\ creq' = [creq EXCEPT ![r] =
                  IF ~PostExists(creq[r].post_id) THEN CLeave(r, 400)
                  ELSE IF creq[r].parent_id # {}
                       THEN [creq[r] EXCEPT !.pc = "parent_check"]
                       ELSE [creq[r] EXCEPT !.pc = "save"]]
    /\ UNCHANGED <<comment, comment_seq, now, treq>>

\* create_comment: the parent must be a comment of the same post
CommentParentCheck(r) ==
    /\ creq[r].pc = "parent_check"
    /\ creq' = [creq EXCEPT ![r] =
                  IF \E c \in creq[r].parent_id : CommentOnPost(c, creq[r].post_id) # {}
                  THEN [creq[r] EXCEPT !.pc = "save"]
                  ELSE CLeave(r, 400)]
    /\ UNCHANGED <<comment, comment_seq, now, treq>>

\* Comment(comment=..., is_active=..., user_id=..., post_id=..., parent_id=...)
NewComment(r) ==
    [id |-> comment_seq + 1, user_id |-> creq[r].user_id, post_id |-> creq[r].post_id,
     parent_id |-> creq[r].parent_id, is_active |-> creq[r].is_active, created |-> now]

\* create_comment: await db_comment.save(); the router answers 201
CommentSave(r) ==
    /\ creq[r].pc = "save"
    /\ IF ~PostExists(creq[r].post_id)
       THEN \* the foreign key to post fails the insert
            /\ creq' = [creq EXCEPT ![r] = CLeave(r, 500)]
            /\ UNCHANGED <<comment, comment_seq>>
       ELSE /\ comment_seq < MaxComments
            /\ comment' = comment \cup {NewComment(r)}
            /\ comment_seq' = comment_seq + 1
            /\ creq' = [creq EXCEPT ![r] = CLeave(r, 201)]
    /\ UNCHANGED <<now, treq>>

\* PUT /comments/{comment_id} arrives, with is_active in the body
StartUpdateComment(r, u, c, active) ==
    /\ CFreeTask(r)
    /\ creq' = [creq EXCEPT ![r] =
                  [IdleCReq EXCEPT !.op = "update", !.pc = "update_get",
                                   !.user_id = u, !.comment_id = c, !.is_active = active]]
    /\ UNCHANGED <<comment, comment_seq, now, treq>>

\* update_comment: comment = await Comment.get_or_none(id, user_id); None is
\* answered 404
UpdateCommentGet(r) ==
    /\ creq[r].pc = "update_get"
    /\ creq' = [creq EXCEPT ![r] =
                  IF CommentOwned(creq[r].comment_id, creq[r].user_id, FALSE) = {}
                  THEN CLeave(r, 404)
                  ELSE [creq[r] EXCEPT !.pc = "update_save"]]
    /\ UNCHANGED <<comment, comment_seq, now, treq>>

\* update_comment: setattr(comment, "is_active", value); await comment.save()
UpdateCommentSave(r) ==
    /\ creq[r].pc = "update_save"
    /\ comment' = {IF x.id = creq[r].comment_id
                    THEN [x EXCEPT !.is_active = creq[r].is_active]
                    ELSE x : x \in comment}
    /\ creq' = [creq EXCEPT ![r] = CLeave(r, 200)]
    /\ UNCHANGED <<comment_seq, now, treq>>

\* DELETE /comments/{comment_id} arrives
StartDeleteComment(r, u, is_staff, c) ==
    /\ CFreeTask(r)
    /\ creq' = [creq EXCEPT ![r] =
                  [IdleCReq EXCEPT !.op = "delete", !.pc = "delete_get",
                                   !.user_id = u, !.is_staff = is_staff, !.comment_id = c]]
    /\ UNCHANGED <<comment, comment_seq, now, treq>>

\* delete_comment: the comment, for staff or for its owner; None is False,
\* answered 404
DeleteCommentGet(r) ==
    /\ creq[r].pc = "delete_get"
    /\ creq' = [creq EXCEPT ![r] =
                  IF CommentOwned(creq[r].comment_id, creq[r].user_id, creq[r].is_staff) = {}
                  THEN CLeave(r, 404)
                  ELSE [creq[r] EXCEPT !.pc = "delete_replies"]]
    /\ UNCHANGED <<comment, comment_seq, now, treq>>

\* a plausible slip: only the requester's own replies are deleted
DeleteCommentRepliesOwn(r) ==
    /\ creq[r].pc = "delete_replies"
    /\ comment' = {x \in comment : ~(ParentOf(x) = {creq[r].comment_id}
                                       /\ x.user_id = creq[r].user_id)}
    /\ creq' = [creq EXCEPT ![r].pc = "delete_self"]
    /\ UNCHANGED <<comment_seq, now, treq>>

\* delete_comment: await Comment.filter(parent_id=comment_id).delete()
DeleteCommentReplies(r) ==
    /\ creq[r].pc = "delete_replies"
    /\ comment' = {x \in comment : ParentOf(x) # {creq[r].comment_id}}
    /\ creq' = [creq EXCEPT ![r].pc = "delete_self"]
    /\ UNCHANGED <<comment_seq, now, treq>>

\* delete_comment: await comment.delete(); True, answered 204
DeleteCommentSelf(r) ==
    /\ creq[r].pc = "delete_self"
    /\ comment' = {x \in comment : x.id # creq[r].comment_id}
    /\ creq' = [creq EXCEPT ![r] = CLeave(r, 204)]
    /\ UNCHANGED <<comment_seq, now, treq>>

\* the response is delivered and the task ends
CommentRespond(r) ==
    /\ creq[r].pc = "done"
    /\ creq' = [creq EXCEPT ![r] = IdleCReq]
    /\ UNCHANGED <<comment, comment_seq, now, treq>>

\* time passes
Tick ==
    /\ now < MaxTime
    /\ now' = now + 1
    /\ UNCHANGED <<comment, comment_seq, creq, treq>>

\* GET /comments/post/{post_id} arrives
StartTree(p) ==
    /\ treq.pc = "idle"
    /\ treq' = [IdleTReq EXCEPT !.pc = "router_check", !.post_id = p]
    /\ UNCHANGED <<comment, comment_seq, now, creq>>

\* get_comments_for_post: 404 when the post is missing
TreeRouterCheck ==
    /\ treq.pc = "router_check"
    /\ treq' = IF PostExists(treq.post_id)
               THEN [treq EXCEPT !.pc = "get_post_comments"]
               ELSE [treq EXCEPT !.pc = "done", !.status = 404]
    /\ UNCHANGED <<comment, comment_seq, now, creq>>

\* comments = await get_post_comments(post_id)
TreeGetPostComments ==
    /\ treq.pc = "get_post_comments"
    /\ \E comments \in GetPostComments(treq.post_id) :
          treq' = [treq EXCEPT !.pc = "build", !.comments = comments]
    /\ UNCHANGED <<comment, comment_seq, now, creq>>

\* build_comment_tree: one turn of the loop over comments (the replies of
\* the next comment are fetched and its node is appended), or the return
\* when the loop has ended
TreeBuild ==
    /\ treq.pc = "build"
    /\ LET i == Len(treq.result) + 1 IN
       IF i > Len(treq.comments)
       THEN treq' = [treq EXCEPT !.pc = "done", !.status = 200]
       ELSE \E replies \in GetReplies(treq.comments[i]) :
               treq' = [treq EXCEPT !.result =
                          Append(@, Node(treq.comments[i], ReplyList(replies)))]
    /\ UNCHANGED <<comment, comment_seq, now, creq>>

\* the tree is delivered and the task ends
TreeRespond ==
    /\ treq.pc = "done"
    /\ treq' = IdleTReq
    /\ UNCHANGED <<comment, comment_seq, now, creq>>

\* -------------------------------------------------------------- post views

\* the dedup window of record_view, timedelta(hours=1), in half hours
Window == 2

\* a plausible slip: the post is fetched whether it is active or not
GetAnyPost(p) == {row \in post : row.id = p}

\* Post.get_or_none(id=p, is_active=True)
GetActivePost(p) == {row \in post : row.id = p /\ row.is_active}

\* PostView.filter(post_id=p, user_id=u, created__gte=since); the user_id
\* column of a view row is the empty set for NULL (a guest) and {u} for user u
ViewsOfUser(rows, p, u, since) ==
    {v \in rows : v.post_id = p /\ v.user_id = {u} /\ v.created >= since}

\* PostView.filter(post_id=p, ip_address=ip, created__gte=since)
ViewsOfIp(rows, p, ip, since) ==
    {v \in rows : v.post_id = p /\ v.ip_address = ip /\ v.created >= since}

\* a plausible slip: the created__gte filter is left out
ExistingAnyTime(rows, p, user_id, ip, since) ==
    IF user_id # {}
    THEN \E u \in user_id : ViewsOfUser(rows, p, u, 0) # {}
    ELSE ViewsOfIp(rows, p, ip, 0) # {}

\* a plausible slip: every viewer is checked by IP
ExistingByIp(rows, p, user_id, ip, since) == ViewsOfIp(rows, p, ip, since) # {}

\* a plausible slip: guests are never checked
ExistingUsersOnly(rows, p, user_id, ip, since) ==
    /\ user_id # {}
    /\ \E u \in user_id : ViewsOfUser(rows, p, u, since) # {}

\* a plausible slip: created__gt, which leaves out a row created exactly one
\* hour ago
ExistingStrict(rows, p, user_id, ip, since) ==
    \E v \in rows :
       /\ v.post_id = p /\ v.created > since
       /\ IF user_id # {} THEN v.user_id = user_id ELSE v.ip_address = ip

\* record_view: existing, checked by user_id for a logged-in user and by IP
\* for a guest
Existing(rows, p, user_id, ip, since) ==
    IF user_id # {}
    THEN \E u \in user_id : ViewsOfUser(rows, p, u, since) # {}
    ELSE ViewsOfIp(rows, p, ip, since) # {}

\* get_view_count, and views_count of get_post_detail:
\* PostView.filter(post_id=p).count()
GetViewCount(rows, p) == Cardinality({v \in rows : v.post_id = p})

IdleVReq == [pc |-> "idle", user_id |-> {}, ip_address |-> 0, post_id |-> 0,
             one_hour_ago |-> 0, recorded |-> "none", likes_count |-> 0,
             dislikes_count |-> 0, comments_count |-> 0, views_count |-> 0,
             user_liked |-> {}, comments |-> <<>>, tree |-> <<>>, status |-> 0]

VIdle(r) == vreq[r].pc = "idle"

\* a new request is handled by the first free task
VFreeTask(r) == VIdle(r) /\ \A q \in ViewerIds : q < r => ~VIdle(q)
AllViewersIdle == \A r \in ViewerIds : VIdle(r)

VLeave(r, code) == [vreq[r] EXCEPT !.pc = "done", !.status = code]

\* GET /posts/{post_id} arrives: read_post resolves the optional user (the
\* empty set when there is none) and the client's IP address
StartDetail(r, user_id, ip, p) ==
    /\ VFreeTask(r)
    /\ vreq' = [vreq EXCEPT ![r] =
                  [IdleVReq EXCEPT !.pc = "get_post", !.user_id = user_id,
                                   !.ip_address = ip, !.post_id = p]]
    /\ UNCHANGED <<view, view_seq, clock>>

\* a plausible slip: read_post depends on get_current_user, which answers
\* 401 when there is no user
DetailGetPostAuthenticated(r) ==
    /\ vreq[r].pc = "get_post"
    /\ vreq' = [vreq EXCEPT ![r] =
                  IF vreq[r].user_id = {} THEN VLeave(r, 401)
                  ELSE IF GetActivePost(vreq[r].post_id) = {}
                  THEN VLeave(r, 404)
                  ELSE [vreq[r] EXCEPT !.pc = "record_exists",
                                       !.one_hour_ago = clock - Window]]
    /\ UNCHANGED <<view, view_seq, clock>>

\* get_post_detail: the active post, or None, which read_post answers with
\* NotFoundException (404); then record_view starts and computes one_hour_ago
DetailGetPost(r) ==
    /\ vreq[r].pc = "get_post"
    /\ vreq' = [vreq EXCEPT ![r] =
                  IF GetActivePost(vreq[r].post_id) = {}
                  THEN VLeave(r, 404)
                  ELSE [vreq[r] EXCEPT !.pc = "record_exists",
                                       !.one_hour_ago = clock - Window]]
    /\ UNCHANGED <<view, view_seq, clock>>

\* record_view: existing = await PostView.filter(...).exists(); return False
\* when it is true
RecordViewExists(r) ==
    /\ vreq[r].pc = "record_exists"
    /\ vreq' = [vreq EXCEPT ![r] =
                  IF Existing(view, vreq[r].post_id, vreq[r].user_id,
                              vreq[r].ip_address, vreq[r].one_hour_ago)
                  THEN [vreq[r] EXCEPT !.pc = "likes_count", !.recorded = "false"]
                  ELSE [vreq[r] EXCEPT !.pc = "record_save"]]
    /\ UNCHANGED <<view, view_seq, clock>>

\* PostView(post_id=..., ip_address=..., user_id=..., user_agent=...);
\* created is stamped when the row is saved
NewView(r) ==
    [id |-> view_seq + 1, post_id |-> vreq[r].post_id, user_id |-> vreq[r].user_id,
     ip_address |-> vreq[r].ip_address, created |-> clock]

\* a plausible slip: the row is built and reported but never saved
RecordViewUnsaved(r) ==
    /\ vreq[r].pc = "record_save"
    /\ vreq' = [vreq EXCEPT ![r].pc = "likes_count", ![r].recorded = "true"]
    /\ UNCHANGED <<view, view_seq, clock>>

\* record_view: await view.save(); return True. get_post_detail awaits
\* record_view outside any try block: what the save raises leaves
\* get_post_detail and read_post, and the general handler answers 500
RecordViewSave(r) ==
    /\ vreq[r].pc = "record_save"
    /\ IF ~PostExists(vreq[r].post_id)
       THEN \* the foreign key to post fails the insert
            /\ vreq' = [vreq EXCEPT ![r] = VLeave(r, 500)]
            /\ UNCHANGED <<view, view_seq>>
       ELSE /\ view_seq < MaxViewId
            /\ view' = view \cup {NewView(r)}
            /\ view_seq' = view_seq + 1
            /\ vreq' = [vreq EXCEPT ![r].pc = "likes_count", ![r].recorded = "true"]
    /\ UNCHANGED clock

\* get_post_detail: likes_count = await Likes.filter(post_id, is_like=True).count()
DetailLikesCount(r) ==
    /\ vreq[r].pc = "likes_count"
    /\ vreq' = [vreq EXCEPT ![r].pc = "dislikes_count",
                            ![r].likes_count = LikesCount(likes, vreq[r].post_id, TRUE)]
    /\ UNCHANGED <<view, view_seq, clock>>

\* get_post_detail: dislikes_count
DetailDislikesCount(r) ==
    /\ vreq[r].pc = "dislikes_count"
    /\ vreq' = [vreq EXCEPT ![r].pc = "comments_count",
                            ![r].dislikes_count = LikesCount(likes, vreq[r].post_id, FALSE)]
    /\ UNCHANGED <<view, view_seq, clock>>

\* a plausible slip: the is_active filter is left out of comments_count
DetailCommentsCountAll(r) ==
    /\ vreq[r].pc = "comments_count"
    /\ vreq' = [vreq EXCEPT ![r].pc = "views_count",
                            ![r].comments_count =
                               Cardinality({c \in comment : c.post_id = vreq[r].post_id})]
    /\ UNCHANGED <<view, view_seq, clock>>

\* get_post_detail: comments_count = await Comment.filter(post_id, is_active=True).count()
DetailCommentsCount(r) ==
    /\ vreq[r].pc = "comments_count"
    /\ vreq' = [vreq EXCEPT ![r].pc = "views_count",
                            ![r].comments_count =
                               Cardinality({c \in comment : c.post_id = vreq[r].post_id
                                                            /\ c.is_active})]
    /\ UNCHANGED <<view, view_seq, clock>>

\* get_post_detail: views_count = await PostView.filter(post_id).count(); the
\* user's reaction is fetched next for a logged-in user only
DetailViewsCount(r) ==
    /\ vreq[r].pc = "views_count"
    /\ vreq' = [vreq EXCEPT ![r].pc = IF vreq[r].user_id # {} THEN "user_like"
                                      ELSE "get_post_comments",
                            ![r].views_count = GetViewCount(view, vreq[r].post_id)]
    /\ UNCHANGED <<view, view_seq, clock>>

\* get_post_detail: user_like = await Likes.get_or_none(user_id, post_id);
\* user_liked is None (the empty set) or the row's is_like
DetailUserLike(r) ==
    /\ vreq[r].pc = "user_like"
    /\ LET rows == UNION {GetOrNone(u, vreq[r].post_id) : u \in vreq[r].user_id} IN
       vreq' = [vreq EXCEPT ![r] =
                  IF MultipleObjectsReturned(rows) THEN VLeave(r, 500)
                  ELSE [vreq[r] EXCEPT !.pc = "get_post_comments",
                                       !.user_liked = {l.is_like : l \in rows}]]
    /\ UNCHANGED <<view, view_seq, clock>>

\* get_post_detail: comments = await get_post_comments(post_id)
DetailGetPostComments(r) ==
    /\ vreq[r].pc = "get_post_comments"
    /\ \E comments \in GetPostComments(vreq[r].post_id) :
          vreq' = [vreq EXCEPT ![r].pc = "build", ![r].comments = comments]
    /\ UNCHANGED <<view, view_seq, clock>>

\* get_post_detail: build_comment_tree, one turn of its loop at a time; when
\* the loop has ended PostDetail is returned and read_post answers 200
DetailBuild(r) ==
    /\ vreq[r].pc = "build"
    /\ LET i == Len(vreq[r].tree) + 1 IN
       IF i > Len(vreq[r].comments)
       THEN vreq' = [vreq EXCEPT ![r] = VLeave(r, 200)]
       ELSE \E replies \in GetReplies(vreq[r].comments[i]) :
               vreq' = [vreq EXCEPT ![r].tree =
                          Append(@, Node(vreq[r].comments[i], ReplyList(replies)))]
    /\ UNCHANGED <<view, view_seq, clock>>

\* the response is delivered and the task ends
DetailRespond(r) ==
    /\ vreq[r].pc = "done"
    /\ vreq' = [vreq EXCEPT ![r] = IdleVReq]
    /\ UNCHANGED <<view, view_seq, clock>>

\* half an hour passes
TickClock ==
    /\ clock < MaxClock
    /\ clock' = clock + 1
    /\ UNCHANGED <<view, view_seq, vreq>>

\* ------------------------------------------------ websocket notifications

\* ConnectionManager.__init__: no key in active_connections
NoConnections == [u \in {} |-> {}]

\* connect: active_connections[user_id].add(websocket), under a new key when
\* the user has none
AddConn(ac, u, ws) ==
    [k \in DOMAIN ac \cup {u} |->
       IF k = u THEN (IF u \in DOMAIN ac THEN ac[u] ELSE {}) \cup {ws} ELSE ac[k]]

\* disconnect, for each socket of gone: when user_id is given and is a key,
\* the socket is discarded from its set and an emptied key is deleted
DiscardConns(ac, u, gone) ==
    IF u = 0 \/ u \notin DOMAIN ac THEN ac
    ELSE IF ac[u] \ gone = {} THEN [k \in DOMAIN ac \ {u} |-> ac[k]]
         ELSE [ac EXCEPT ![u] = ac[u] \ gone]

\* the task that notifies: op is "post" (create_new_post, broadcast) or
\* "comment" (create_new_comment, send_personal_message to target); cur is the
\* socket whose send_json is awaited; it_used is the size the set had when its
\* iterator was made, yielded the number of sockets the iterator gave, seen
\* those it gave; touched says the set was changed under the iterator, stale
\* that it was dropped from active_connections (it is empty then)
IdleNReq == [op |-> "idle", pc |-> "idle", target |-> 0, writer |-> 0, cur |-> 0,
             it_used |-> 0, yielded |-> 0, seen |-> {}, disconnected |-> {},
             touched |-> FALSE, stale |-> FALSE, status |-> 0]

NotifyIdle == nreq.op = "idle"

\* the set the running loop iterates, as it is now
Iterated ==
    IF nreq.op = "post" THEN all_connections
    ELSE IF nreq.stale THEN {}
    ELSE active_connections[nreq.target]

\* what a change of the manager by another task means for the running loop
Touch(changed, dropped) ==
    IF nreq.pc = "sending" /\ changed
    THEN [nreq EXCEPT !.touched = TRUE, !.stale = @ \/ dropped]
    ELSE nreq

\* a websocket endpoint calls connect(websocket, user_id) once accept() has
\* returned; user_id 0 stands for none
Connect(ws, u) ==
    /\ sock[ws] = {}
    /\ sock' = [sock EXCEPT ![ws] = {u}]
    /\ all_connections' = all_connections \cup {ws}
    /\ active_connections' = IF u # 0 THEN AddConn(active_connections, u, ws)
                             ELSE active_connections
    /\ nreq' = Touch(\/ nreq.op = "post" /\ ws \notin all_connections
                     \/ /\ nreq.op = "comment" /\ u = nreq.target /\ ~nreq.stale
                        /\ ws \notin active_connections[u],
                     FALSE)
    /\ UNCHANGED post_owner

\* the endpoint calls disconnect(websocket, user_id) with the user id it
\* connected with
Disconnect(ws) ==
    /\ sock[ws] # {}
    /\ LET u == CHOOSE x \in sock[ws] : TRUE
           ac == DiscardConns(active_connections, u, {ws})
       IN
       /\ all_connections' = all_connections \ {ws}
       /\ active_connections' = ac
       /\ nreq' = Touch(\/ nreq.op = "post" /\ ws \in all_connections
                        \/ /\ nreq.op = "comment" /\ u = nreq.target /\ ~nreq.stale
                           /\ ws \in active_connections[u],
                        nreq.op = "comment" /\ u \notin DOMAIN ac)
    /\ sock' = [sock EXCEPT ![ws] = {}]
    /\ UNCHANGED post_owner

\* the handler has nothing left to await: it returns the row, status 201
NotifyDone(op, r, code) ==
    [IdleNReq EXCEPT !.op = op, !.pc = "done", !.writer = r, !.status = code]

\* the for statement makes the iterator of the set and takes its first
\* socket, whose send_json is awaited; with no socket the loop is over
StartLoop(op, target, r, conns) ==
    IF conns = {}
    THEN nreq' = NotifyDone(op, r, 201)
    ELSE \E c \in conns :
            nreq' = [IdleNReq EXCEPT !.op = op, !.pc = "sending", !.target = target,
                                     !.writer = r, !.cur = c, !.yielded = 1,
                                     !.it_used = Cardinality(conns)]

\* POST /posts/ by user u: create_post, then notify_new_post, which
\* broadcasts to all_connections
CreateNewPost(u) ==
    /\ NotifyIdle
    /\ CreatePost
    /\ post_owner' = [post_owner EXCEPT ![post_seq + 1] = u]
    /\ StartLoop("post", 0, 0, all_connections)
    /\ UNCHANGED <<all_connections, active_connections, sock>>

\* create_new_comment after create_comment has returned the new comment: the
\* post's owner, when it is not the commenter, is notified with
\* send_personal_message, which returns at once for a user without a key
StartNotifyComment(r) ==
    /\ NotifyIdle
    /\ creq[r].pc = "done" /\ creq[r].status = 201 /\ creq[r].op = "comment"
    /\ LET owner == post_owner[creq[r].post_id] IN
       IF owner # creq[r].user_id /\ owner \in DOMAIN active_connections
       THEN StartLoop("comment", owner, r, active_connections[owner])
       ELSE nreq' = NotifyDone("comment", r, 201)
    /\ UNCHANGED <<all_connections, active_connections, sock, post_owner>>

\* the clean-up after the loop: broadcast discards the failed sockets from
\* all_connections only; send_personal_message calls disconnect(conn, user_id)
\* for each
CleanUp(gone) ==
    /\ all_connections' = all_connections \ gone
    /\ active_connections' = IF nreq.op = "comment"
                             THEN DiscardConns(active_connections, nreq.target, gone)
                             ELSE active_connections

\* send_json returns (ok) or raises, which is caught and notes the socket in
\* disconnected; then the for statement asks the iterator for the next
\* socket. The iterator raises RuntimeError (set changed size during
\* iteration) when the set has not the size it had; nothing catches it and
\* the general handler answers 500. Over a set changed to the same size the
\* iterator gives any socket of the set or ends, and no more sockets than the
\* set has. When it ends the clean-up runs and the handler returns, 201.
NotifyStep(ok) ==
    /\ nreq.pc = "sending"
    /\ LET gone == IF ok THEN nreq.disconnected ELSE nreq.disconnected \cup {nreq.cur}
           seen == nreq.seen \cup {nreq.cur}
           rest == IF nreq.touched THEN Iterated ELSE Iterated \ seen
       IN
       IF Cardinality(Iterated) # nreq.it_used
       THEN /\ nreq' = NotifyDone(nreq.op, nreq.writer, 500)
            /\ UNCHANGED <<all_connections, active_connections>>
       ELSE \/ /\ nreq.yielded < nreq.it_used
               /\ \E c \in rest :
                     nreq' = [nreq EXCEPT !.cur = c, !.yielded = @ + 1,
                                          !.seen = seen, !.disconnected = gone]
               /\ UNCHANGED <<all_connections, active_connections>>
            \/ /\ nreq.touched \/ rest = {}
               /\ CleanUp(gone)
               /\ nreq' = NotifyDone(nreq.op, nreq.writer, 201)
    /\ UNCHANGED <<sock, post_owner>>

\* the response of the notifying request is delivered and its task ends
NotifyRespond ==
    /\ nreq.pc = "done"
    /\ nreq' = IdleNReq
    /\ creq' = IF nreq.op = "comment" THEN [creq EXCEPT ![nreq.writer] = IdleCReq]
               ELSE creq
    /\ UNCHANGED <<all_connections, active_connections, sock, post_owner>>

\* ----------------------------------------------------------- registration

\* User.filter(username=n)
UsersNamed(n) == {row \in users : row.username = n}

\* User.filter(email=m)
UsersMailed(m) == {row \in users : row.email = m}

\* the register task; taken notes for the client whether the username or the
\* email was registered when the request arrived, created is the id of the
\* user the request inserted (0 for none)
IdleUReq == [pc |-> "idle", username |-> 0, email |-> 0, taken |-> FALSE,
             created |-> 0, status |-> 0]

UIdle(r) == ureq[r].pc = "idle"

\* a new request is handled by the first free task
UFreeTask(r) == UIdle(r) /\ \A q \in RegisterIds : q < r => ~UIdle(q)

ULeave(r, code) == [ureq[r] EXCEPT !.pc = "done", !.status = code]

\* POST /auth/register arrives with a username and an email
StartRegister(r, n, m) ==
    /\ UFreeTask(r)
    /\ ureq' = [ureq EXCEPT ![r] =
                  [IdleUReq EXCEPT !.pc = "username_exists", !.username = n,
                                   !.email = m,
                                   !.taken = (UsersNamed(n) # {} \/ UsersMailed(m) # {})]]
    /\ UNCHANGED <<users, user_seq>>

\* register: 400 "Username already registered"
RegisterUsernameExists(r) ==
    /\ ureq[r].pc = "username_exists"
    /\ ureq' = [ureq EXCEPT ![r] =
                  IF UsersNamed(ureq[r].username) # {} THEN ULeave(r, 400)
                  ELSE [ureq[r] EXCEPT !.pc = "email_exists"]]
    /\ UNCHANGED <<users, user_seq>>

\* register: 400 "Email already registered"
RegisterEmailExists(r) ==
    /\ ureq[r].pc = "email_exists"
    /\ ureq' = [ureq EXCEPT ![r] =
                  IF UsersMailed(ureq[r].email) # {} THEN ULeave(r, 400)
                  ELSE [ureq[r] EXCEPT !.pc = "crud_username"]]
    /\ UNCHANGED <<users, user_seq>>

\* create_user: ConflictException "Username already exists", status 409
CreateUserUsername(r) ==
    /\ ureq[r].pc = "crud_username"
    /\ ureq' = [ureq EXCEPT ![r] =
                  IF UsersNamed(ureq[r].username) # {} THEN ULeave(r, 409)
                  ELSE [ureq[r] EXCEPT !.pc = "crud_email"]]
    /\ UNCHANGED <<users, user_seq>>

\* create_user: ConflictException "Email already exists", status 409
CreateUserEmail(r) ==
    /\ ureq[r].pc = "crud_email"
    /\ ureq' = [ureq EXCEPT ![r] =
                  IF UsersMailed(ureq[r].email) # {} THEN ULeave(r, 409)
                  ELSE [ureq[r] EXCEPT !.pc = "save"]]
    /\ UNCHANGED <<users, user_seq>>

\* the unique indexes of username and of email refuse the insert
UniqueViolated(n, m) == UsersNamed(n) # {} \/ UsersMailed(m) # {}

\* create_user: await db_user.save(); what the insert raises is not caught
\* and the general handler answers 500; else register answers 201
CreateUserSave(r) ==
    /\ ureq[r].pc = "save"
    /\ IF UniqueViolated(ureq[r].username, ureq[r].email)
       THEN /\ ureq' = [ureq EXCEPT ![r] = ULeave(r, 500)]
            /\ UNCHANGED <<users, user_seq>>
       ELSE /\ user_seq < MaxUserId
            /\ users' = users \cup {[id |-> user_seq + 1, username |-> ureq[r].username,
                                     email |-> ureq[r].email]}
            /\ user_seq' = user_seq + 1
            /\ ureq' = [ureq EXCEPT ![r] =
                          [ULeave(r, 201) EXCEPT !.created = user_seq + 1]]

\* the response is delivered and the task ends
RegisterRespond(r) ==
    /\ ureq[r].pc = "done"
    /\ ureq' = [ureq EXCEPT ![r] = IdleUReq]
    /\ UNCHANGED <<users, user_seq>>

\* ------------------------------------------------------- the specifications

Init ==
    /\ post = {}
    /\ post_seq = 0
    /\ likes = {}
    /\ like_seq = 0
    /\ req = [r \in ReqIds |-> IdleReq]
    /\ log = <<>>
    /\ comment = {}
    /\ comment_seq = 0
    /\ now = 0
    /\ creq = [r \in WriterIds |-> IdleCReq]
    /\ treq = IdleTReq
    /\ csnap = {}
    /\ view = {}
    /\ view_seq = 0
    /\ clock = 0
    /\ vreq = [r \in ViewerIds |-> IdleVReq]
    /\ vlog = <<>>
    /\ all_connections = {}
    /\ active_connections = NoConnections
    /\ sock = [ws \in Sockets |-> {}]
    /\ post_owner = [p \in PostIds |-> 0]
    /\ nreq = IdleNReq
    /\ users = {}
    /\ user_seq = 0
    /\ ureq = [r \in RegisterIds |-> IdleUReq]

\* concurrent requests: every task may run whenever it has a step to take
Next ==
    \/ \E r \in ReqIds, u \in Users, p \in PostIds, x \in BOOLEAN :
          StartToggle(r, u, p, x) /\ UNCHANGED <<wvars, uvars, log, cvars, vvars>>
    \/ \E r \in ReqIds, u \in Users, p \in PostIds, x \in BOOLEAN :
          StartCreate(r, u, p, x) /\ UNCHANGED <<wvars, uvars, log, cvars, vvars>>
    \/ \E r \in ReqIds : RouterCheck(r) /\ UNCHANGED <<wvars, uvars, log, cvars, vvars>>
    \/ \E r \in ReqIds : CrudCheck(r) /\ UNCHANGED <<wvars, uvars, log, cvars, vvars>>
    \/ \E r \in ReqIds : ToggleGetExisting(r) /\ UNCHANGED <<wvars, uvars, log, cvars, vvars>>
    \/ \E r \in ReqIds : ToggleMutate(r) /\ UNCHANGED <<wvars, uvars, log, cvars, vvars>>
    \/ \E r \in ReqIds : CountLikes(r) /\ UNCHANGED <<wvars, uvars, log, cvars, vvars>>
    \/ \E r \in ReqIds : CountDislikes(r) /\ UNCHANGED <<wvars, uvars, log, cvars, vvars>>
    \/ \E r \in ReqIds : CreateLikeExists(r) /\ UNCHANGED <<wvars, uvars, log, cvars, vvars>>
    \/ \E r \in ReqIds : CreateLikeSave(r) /\ UNCHANGED <<wvars, uvars, log, cvars, vvars>>
    \/ \E r \in ReqIds : Respond(r) /\ UNCHANGED <<wvars, uvars, log, cvars, vvars>>
    \/ CreatePost /\ UNCHANGED <<wvars, uvars, log, cvars, vvars>>
    \/ \E p \in PostIds, a \in BOOLEAN : UpdatePost(p, a) /\ UNCHANGED <<wvars, uvars, log, cvars, vvars>>
    \/ \E p \in PostIds : DeletePost(p) /\ UNCHANGED <<wvars, uvars, log, cvars_kept, vvars_kept>>

Spec == Init /\ [][Next]_vars

\* ------------------------------------------------- a sequential client

\* what the client notes when it sends a likes request: the call, and the
\* post and its reaction rows at that moment
Sent(op, u, p, x) ==
    [op |-> op, user_id |-> u, post_id |-> p, is_like |-> x,
     post_state |-> PostState(p), before |-> PostLikes(likes, p),
     status |-> 0, liked |-> FALSE, likes_count |-> 0, dislikes_count |-> 0,
     after |-> {}]

\* the response completes the entry; after is the post's reaction rows then
Answered(e, r) ==
    [e EXCEPT !.status = req[r].status, !.liked = req[r].liked,
              !.likes_count = req[r].likes_count,
              !.dislikes_count = req[r].dislikes_count,
              !.after = PostLikes(likes, e.post_id)]

SendToggle(r, u, p, x) ==
    /\ AllIdle
    /\ Len(log) < MaxCalls
    /\ StartToggle(r, u, p, x)
    /\ log' = Append(log, Sent("toggle", u, p, x))
    /\ UNCHANGED <<wvars, uvars, cvars, vvars>>

SendCreate(r, u, p, x) ==
    /\ AllIdle
    /\ Len(log) < MaxCalls
    /\ StartCreate(r, u, p, x)
    /\ log' = Append(log, Sent("create", u, p, x))
    /\ UNCHANGED <<wvars, uvars, cvars, vvars>>

Receive(r) ==
    /\ Respond(r)
    /\ log' = [log EXCEPT ![Len(log)] = Answered(log[Len(log)], r)]
    /\ UNCHANGED <<wvars, uvars, cvars, vvars>>

\* one request at a time: the next one is sent when the last one was answered
NextSeq ==
    \/ \E r \in ReqIds, u \in Users, p \in PostIds, x \in BOOLEAN : SendToggle(r, u, p, x)
    \/ \E r \in ReqIds, u \in Users, p \in PostIds, x \in BOOLEAN : SendCreate(r, u, p, x)
    \/ \E r \in ReqIds : RouterCheck(r) /\ UNCHANGED <<wvars, uvars, log, cvars, vvars>>
    \/ \E r \in ReqIds : CrudCheck(r) /\ UNCHANGED <<wvars, uvars, log, cvars, vvars>>
    \/ \E r \in ReqIds : ToggleGetExisting(r) /\ UNCHANGED <<wvars, uvars, log, cvars, vvars>>
    \/ \E r \in ReqIds : ToggleMutate(r) /\ UNCHANGED <<wvars, uvars, log, cvars, vvars>>
    \/ \E r \in ReqIds : CountLikes(r) /\ UNCHANGED <<wvars, uvars, log, cvars, vvars>>
    \/ \E r \in ReqIds : CountDislikes(r) /\ UNCHANGED <<wvars, uvars, log, cvars, vvars>>
    \/ \E r \in ReqIds : CreateLikeExists(r) /\ UNCHANGED <<wvars, uvars, log, cvars, vvars>>
    \/ \E r \in ReqIds : CreateLikeSave(r) /\ UNCHANGED <<wvars, uvars, log, cvars, vvars>>
    \/ \E r \in ReqIds : Receive(r)
    \/ AllIdle /\ CreatePost /\ UNCHANGED <<wvars, uvars, log, cvars, vvars>>
    \/ \E p \in PostIds, a \in BOOLEAN : AllIdle /\ UpdatePost(p, a) /\ UNCHANGED <<wvars, uvars, log, cvars, vvars>>
    \/ \E p \in PostIds : AllIdle /\ DeletePost(p) /\ UNCHANGED <<wvars, uvars, log, cvars_kept, vvars_kept>>

SpecSeq == Init /\ [][NextSeq]_vars

\* --------------------------------------------- comments: the specification

CommentIds == 1..MaxComments

\* no comment-writing request is in flight
NoWriter == \A r \in WriterIds : CIdle(r)

\* no tree is being read
NoReader == treq.pc = "idle"

\* the client sends a comment request when nothing else is in flight, and
\* notes the comments stored then
SendComment(r, u, p, parent, a) ==
    NoReader /\ NoWriter /\ StartComment(r, u, p, parent, a) /\ csnap' = comment

SendReply(r, u, p, c, a) ==
    NoReader /\ NoWriter /\ StartReply(r, u, p, c, a) /\ csnap' = comment

SendUpdateComment(r, u, c, a) ==
    NoReader /\ NoWriter /\ StartUpdateComment(r, u, c, a) /\ csnap' = comment

SendDeleteComment(r, u, s, c) ==
    NoReader /\ NoWriter /\ StartDeleteComment(r, u, s, c) /\ csnap' = comment

ReceiveComment(r) == CommentRespond(r) /\ csnap' = {}

\* a client that sends one comment request at a time, or reads a tree, and
\* posts that come and go between the writes
NextComments ==
    \/ \E r \in WriterIds, u \in Users, p \in PostIds, a \in BOOLEAN :
          \E parent \in {{}} \cup {{c} : c \in CommentIds} :
             SendComment(r, u, p, parent, a) /\ UNCHANGED <<wvars, uvars, lvars, vvars>>
    \/ \E r \in WriterIds, u \in Users, p \in PostIds, c \in CommentIds, a \in BOOLEAN :
          SendReply(r, u, p, c, a) /\ UNCHANGED <<wvars, uvars, lvars, vvars>>
    \/ \E r \in WriterIds : CommentRouterCheck(r) /\ UNCHANGED <<wvars, uvars, lvars, csnap, vvars>>
    \/ \E r \in WriterIds : CommentCrudCheck(r) /\ UNCHANGED <<wvars, uvars, lvars, csnap, vvars>>
    \/ \E r \in WriterIds : CommentParentCheck(r) /\ UNCHANGED <<wvars, uvars, lvars, csnap, vvars>>
    \/ \E r \in WriterIds : CommentSave(r) /\ UNCHANGED <<wvars, uvars, lvars, csnap, vvars>>
    \/ \E r \in WriterIds, u \in Users, c \in CommentIds, a \in BOOLEAN :
          SendUpdateComment(r, u, c, a) /\ UNCHANGED <<wvars, uvars, lvars, vvars>>
    \/ \E r \in WriterIds : UpdateCommentGet(r) /\ UNCHANGED <<wvars, uvars, lvars, csnap, vvars>>
    \/ \E r \in WriterIds : UpdateCommentSave(r) /\ UNCHANGED <<wvars, uvars, lvars, csnap, vvars>>
    \/ \E r \in WriterIds, u \in Users, s \in BOOLEAN, c \in CommentIds :
          SendDeleteComment(r, u, s, c) /\ UNCHANGED <<wvars, uvars, lvars, vvars>>
    \/ \E r \in WriterIds : DeleteCommentGet(r) /\ UNCHANGED <<wvars, uvars, lvars, csnap, vvars>>
    \/ \E r \in WriterIds : DeleteCommentReplies(r) /\ UNCHANGED <<wvars, uvars, lvars, csnap, vvars>>
    \/ \E r \in WriterIds : DeleteCommentSelf(r) /\ UNCHANGED <<wvars, uvars, lvars, csnap, vvars>>
    \/ \E r \in WriterIds : ReceiveComment(r) /\ UNCHANGED <<wvars, uvars, lvars, vvars>>
    \/ Tick /\ UNCHANGED <<wvars, uvars, lvars, csnap, vvars>>
    \/ \E p \in PostIds : NoWriter /\ StartTree(p) /\ UNCHANGED <<wvars, uvars, lvars, csnap, vvars>>
    \/ TreeRouterCheck /\ UNCHANGED <<wvars, uvars, lvars, csnap, vvars>>
    \/ TreeGetPostComments /\ UNCHANGED <<wvars, uvars, lvars, csnap, vvars>>
    \/ TreeBuild /\ UNCHANGED <<wvars, uvars, lvars, csnap, vvars>>
    \/ TreeRespond /\ UNCHANGED <<wvars, uvars, lvars, csnap, vvars>>
    \/ CreatePost /\ UNCHANGED <<wvars, uvars, log, cvars, vvars>>
    \/ \E p \in PostIds :
          NoWriter /\ DeletePost(p) /\ UNCHANGED <<wvars, uvars, log, cvars_kept, vvars_kept>>

SpecComments == Init /\ [][NextComments]_vars

\* concurrent comment writers: every task may run whenever it has a step to
\* take; comments are created, replied to and deleted, and posts come and go
NextWriters ==
    \/ \E r \in WriterIds, u \in Users, p \in PostIds :
          StartComment(r, u, p, {}, TRUE) /\ UNCHANGED <<wvars, uvars, lvars, csnap, vvars>>
    \/ \E r \in WriterIds, u \in Users, p \in PostIds, c \in CommentIds :
          StartReply(r, u, p, c, TRUE) /\ UNCHANGED <<wvars, uvars, lvars, csnap, vvars>>
    \/ \E r \in WriterIds : CommentRouterCheck(r) /\ UNCHANGED <<wvars, uvars, lvars, csnap, vvars>>
    \/ \E r \in WriterIds : CommentCrudCheck(r) /\ UNCHANGED <<wvars, uvars, lvars, csnap, vvars>>
    \/ \E r \in WriterIds : CommentParentCheck(r) /\ UNCHANGED <<wvars, uvars, lvars, csnap, vvars>>
    \/ \E r \in WriterIds : CommentSave(r) /\ UNCHANGED <<wvars, uvars, lvars, csnap, vvars>>
    \/ \E r \in WriterIds, u \in Users, s \in BOOLEAN, c \in CommentIds :
          StartDeleteComment(r, u, s, c) /\ UNCHANGED <<wvars, uvars, lvars, csnap, vvars>>
    \/ \E r \in WriterIds : DeleteCommentGet(r) /\ UNCHANGED <<wvars, uvars, lvars, csnap, vvars>>
    \/ \E r \in WriterIds : DeleteCommentReplies(r) /\ UNCHANGED <<wvars, uvars, lvars, csnap, vvars>>
    \/ \E r \in WriterIds : DeleteCommentSelf(r) /\ UNCHANGED <<wvars, uvars, lvars, csnap, vvars>>
    \/ \E r \in WriterIds : CommentRespond(r) /\ UNCHANGED <<wvars, uvars, lvars, csnap, vvars>>
    \/ CreatePost /\ UNCHANGED <<wvars, uvars, log, cvars, vvars>>
    \/ \E p \in PostIds :
          DeletePost(p) /\ UNCHANGED <<wvars, uvars, log, cvars_kept, vvars_kept>>

SpecWriters == Init /\ [][NextWriters]_vars


\* ------------------------------------------------ views: the specifications

\* who asks: a guest (the empty set) or a logged-in user
Viewers == {{}} \cup {{u} : u \in Users}

\* what the client notes when it sends a detail request: the call, the time,
\* and the post and the view rows at that moment
ViewSent(user_id, ip, p) ==
    [user_id |-> user_id, ip_address |-> ip, post_id |-> p, at |-> clock,
     post_state |-> PostState(p), before |-> view,
     status |-> 0, recorded |-> "none", views_count |-> 0, after |-> {}]

\* the response completes the entry; recorded is what record_view returned
ViewAnswered(e, r) ==
    [e EXCEPT !.status = vreq[r].status, !.recorded = vreq[r].recorded,
              !.views_count = vreq[r].views_count, !.after = view]

SendDetail(r, user_id, ip, p) ==
    /\ AllViewersIdle
    /\ Len(vlog) < MaxViewCalls
    /\ StartDetail(r, user_id, ip, p)
    /\ vlog' = Append(vlog, ViewSent(user_id, ip, p))

ReceiveDetail(r) ==
    /\ DetailRespond(r)
    /\ vlog' = [vlog EXCEPT ![Len(vlog)] = ViewAnswered(vlog[Len(vlog)], r)]

\* one detail request at a time; time passes and posts come and go between
\* the requests
NextViewSeq ==
    \/ \E r \in ViewerIds, v \in Viewers, ip \in Ips, p \in PostIds :
          SendDetail(r, v, ip, p) /\ UNCHANGED <<wvars, uvars, lvars, cvars>>
    \/ \E r \in ViewerIds : DetailGetPost(r) /\ UNCHANGED <<wvars, uvars, vlog, lvars, cvars>>
    \/ \E r \in ViewerIds : RecordViewExists(r) /\ UNCHANGED <<wvars, uvars, vlog, lvars, cvars>>
    \/ \E r \in ViewerIds : RecordViewSave(r) /\ UNCHANGED <<wvars, uvars, vlog, lvars, cvars>>
    \/ \E r \in ViewerIds : DetailLikesCount(r) /\ UNCHANGED <<wvars, uvars, vlog, lvars, cvars>>
    \/ \E r \in ViewerIds : DetailDislikesCount(r) /\ UNCHANGED <<wvars, uvars, vlog, lvars, cvars>>
    \/ \E r \in ViewerIds : DetailCommentsCount(r) /\ UNCHANGED <<wvars, uvars, vlog, lvars, cvars>>
    \/ \E r \in ViewerIds : DetailViewsCount(r) /\ UNCHANGED <<wvars, uvars, vlog, lvars, cvars>>
    \/ \E r \in ViewerIds : DetailUserLike(r) /\ UNCHANGED <<wvars, uvars, vlog, lvars, cvars>>
    \/ \E r \in ViewerIds : DetailGetPostComments(r) /\ UNCHANGED <<wvars, uvars, vlog, lvars, cvars>>
    \/ \E r \in ViewerIds : DetailBuild(r) /\ UNCHANGED <<wvars, uvars, vlog, lvars, cvars>>
    \/ \E r \in ViewerIds : ReceiveDetail(r) /\ UNCHANGED <<wvars, uvars, lvars, cvars>>
    \/ AllViewersIdle /\ TickClock /\ UNCHANGED <<wvars, uvars, vlog, lvars, cvars>>
    \/ AllViewersIdle /\ CreatePost /\ UNCHANGED <<wvars, uvars, log, cvars, vvars>>
    \/ \E p \in PostIds, a \in BOOLEAN :
          AllViewersIdle /\ UpdatePost(p, a) /\ UNCHANGED <<wvars, uvars, log, cvars, vvars>>
    \/ \E p \in PostIds :
          AllViewersIdle /\ DeletePost(p) /\ UNCHANGED <<wvars, uvars, log, cvars_kept, vvars_kept>>

SpecViewSeq == Init /\ [][NextViewSeq]_vars

\* concurrent detail requests within one half hour: every task may run
\* whenever it has a step to take, while posts are created and deleted
NextViews ==
    \/ \E r \in ViewerIds, v \in Viewers, ip \in Ips, p \in PostIds :
          StartDetail(r, v, ip, p) /\ UNCHANGED <<wvars, uvars, vlog, lvars, cvars>>
    \/ \E r \in ViewerIds : DetailGetPost(r) /\ UNCHANGED <<wvars, uvars, vlog, lvars, cvars>>
    \/ \E r \in ViewerIds : RecordViewExists(r) /\ UNCHANGED <<wvars, uvars, vlog, lvars, cvars>>
    \/ \E r \in ViewerIds : RecordViewSave(r) /\ UNCHANGED <<wvars, uvars, vlog, lvars, cvars>>
    \/ \E r \in ViewerIds : DetailLikesCount(r) /\ UNCHANGED <<wvars, uvars, vlog, lvars, cvars>>
    \/ \E r \in ViewerIds : DetailDislikesCount(r) /\ UNCHANGED <<wvars, uvars, vlog, lvars, cvars>>
    \/ \E r \in ViewerIds : DetailCommentsCount(r) /\ UNCHANGED <<wvars, uvars, vlog, lvars, cvars>>
    \/ \E r \in ViewerIds : DetailViewsCount(r) /\ UNCHANGED <<wvars, uvars, vlog, lvars, cvars>>
    \/ \E r \in ViewerIds : DetailUserLike(r) /\ UNCHANGED <<wvars, uvars, vlog, lvars, cvars>>
    \/ \E r \in ViewerIds : DetailGetPostComments(r) /\ UNCHANGED <<wvars, uvars, vlog, lvars, cvars>>
    \/ \E r \in ViewerIds : DetailBuild(r) /\ UNCHANGED <<wvars, uvars, vlog, lvars, cvars>>
    \/ \E r \in ViewerIds : DetailRespond(r) /\ UNCHANGED <<wvars, uvars, vlog, lvars, cvars>>
    \/ CreatePost /\ UNCHANGED <<wvars, uvars, log, cvars, vvars>>
    \/ \E p \in PostIds : DeletePost(p) /\ UNCHANGED <<wvars, uvars, log, cvars_kept, vvars_kept>>

SpecViews == Init /\ [][NextViews]_vars

\* ------------------------------ a post detail read while reactions change

\* the reaction rows of the post that a read of the detail request sees
SeenLikes(r) == PostLikes(likes, vreq[r].post_id)

\* a logged-in user asks for the detail of a post when no other detail
\* request is in flight
WatchDetail(r, u, ip, p) == AllViewersIdle /\ StartDetail(r, {u}, ip, p)

\* the response is delivered and the notes of the request are dropped
WatchRespond(r) == DetailRespond(r) /\ vlog' = <<>>

\* the three reads of the reaction table in get_post_detail, each noted with
\* the rows it saw: the likes count, the dislikes count, the user's reaction
WatchLikesCount(r) == DetailLikesCount(r) /\ vlog' = <<SeenLikes(r)>>
WatchDislikesCount(r) == DetailDislikesCount(r) /\ vlog' = Append(vlog, SeenLikes(r))
WatchUserLike(r) == DetailUserLike(r) /\ vlog' = Append(vlog, SeenLikes(r))

\* one detail request of user 1, from one address, and one toggle request
\* of any user at a time, each running whenever it has a step to take, on posts
\* that are created meanwhile
NextDetailToggle ==
    \/ \E r \in ViewerIds, p \in PostIds :
          WatchDetail(r, 1, 1, p) /\ UNCHANGED <<wvars, uvars, vlog, lvars, cvars>>
    \/ \E r \in ViewerIds : DetailGetPost(r) /\ UNCHANGED <<wvars, uvars, vlog, lvars, cvars>>
    \/ \E r \in ViewerIds : RecordViewExists(r) /\ UNCHANGED <<wvars, uvars, vlog, lvars, cvars>>
    \/ \E r \in ViewerIds : RecordViewSave(r) /\ UNCHANGED <<wvars, uvars, vlog, lvars, cvars>>
    \/ \E r \in ViewerIds : WatchLikesCount(r) /\ UNCHANGED <<wvars, uvars, lvars, cvars>>
    \/ \E r \in ViewerIds : WatchDislikesCount(r) /\ UNCHANGED <<wvars, uvars, lvars, cvars>>
    \/ \E r \in ViewerIds : DetailCommentsCount(r) /\ UNCHANGED <<wvars, uvars, vlog, lvars, cvars>>
    \/ \E r \in ViewerIds : DetailViewsCount(r) /\ UNCHANGED <<wvars, uvars, vlog, lvars, cvars>>
    \/ \E r \in ViewerIds : WatchUserLike(r) /\ UNCHANGED <<wvars, uvars, lvars, cvars>>
    \/ \E r \in ViewerIds : DetailGetPostComments(r) /\ UNCHANGED <<wvars, uvars, vlog, lvars, cvars>>
    \/ \E r \in ViewerIds : DetailBuild(r) /\ UNCHANGED <<wvars, uvars, vlog, lvars, cvars>>
    \/ \E r \in ViewerIds : WatchRespond(r) /\ UNCHANGED <<wvars, uvars, lvars, cvars>>
    \/ \E r \in ReqIds, u \in Users, p \in PostIds, x \in BOOLEAN :
          AllIdle /\ StartToggle(r, u, p, x) /\ UNCHANGED <<wvars, uvars, log, cvars, vvars>>
    \/ \E r \in ReqIds : RouterCheck(r) /\ UNCHANGED <<wvars, uvars, log, cvars, vvars>>
    \/ \E r \in ReqIds : CrudCheck(r) /\ UNCHANGED <<wvars, uvars, log, cvars, vvars>>
    \/ \E r \in ReqIds : ToggleGetExisting(r) /\ UNCHANGED <<wvars, uvars, log, cvars, vvars>>
    \/ \E r \in ReqIds : ToggleMutate(r) /\ UNCHANGED <<wvars, uvars, log, cvars, vvars>>
    \/ \E r \in ReqIds : CountLikes(r) /\ UNCHANGED <<wvars, uvars, log, cvars, vvars>>
    \/ \E r \in ReqIds : CountDislikes(r) /\ UNCHANGED <<wvars, uvars, log, cvars, vvars>>
    \/ \E r \in ReqIds : Respond(r) /\ UNCHANGED <<wvars, uvars, log, cvars, vvars>>
    \/ CreatePost /\ UNCHANGED <<wvars, uvars, log, cvars, vvars>>

SpecDetailToggle == Init /\ [][NextDetailToggle]_vars

\* ------------------------------------ notifications: the specification

\* posts and comments are created by their handlers, one comment request at
\* a time, while websocket endpoints connect and disconnect and sends fail
NextNotify ==
    \/ \E ws \in Sockets, u \in {0} \cup Users :
          Connect(ws, u) /\ UNCHANGED <<lvars, cvars, vvars, uvars>>
    \/ \E ws \in Sockets : Disconnect(ws) /\ UNCHANGED <<lvars, cvars, vvars, uvars>>
    \/ \E u \in Users : CreateNewPost(u) /\ UNCHANGED <<log, cvars, vvars, uvars>>
    \/ \E r \in WriterIds, u \in Users, p \in PostIds :
          NoWriter /\ StartComment(r, u, p, {}, TRUE)
             /\ UNCHANGED <<wvars, uvars, lvars, csnap, vvars>>
    \/ \E r \in WriterIds : CommentRouterCheck(r) /\ UNCHANGED <<wvars, uvars, lvars, csnap, vvars>>
    \/ \E r \in WriterIds : CommentCrudCheck(r) /\ UNCHANGED <<wvars, uvars, lvars, csnap, vvars>>
    \/ \E r \in WriterIds : CommentSave(r) /\ UNCHANGED <<wvars, uvars, lvars, csnap, vvars>>
    \/ \E r \in WriterIds :
          StartNotifyComment(r) /\ UNCHANGED <<lvars, cvars, vvars, uvars>>
    \/ \E ok \in BOOLEAN : NotifyStep(ok) /\ UNCHANGED <<lvars, cvars, vvars, uvars>>
    \/ NotifyRespond
          /\ UNCHANGED <<lvars, comment, comment_seq, now, treq, csnap, vvars, uvars>>
    \/ \E r \in WriterIds :
          creq[r].status # 201 /\ CommentRespond(r)
             /\ UNCHANGED <<wvars, uvars, lvars, csnap, vvars>>

SpecNotify == Init /\ [][NextNotify]_vars

\* ------------------------------------- registration: the specification

\* concurrent registrations: every task may run whenever it has a step to
\* take
NextRegister ==
    \/ \E r \in RegisterIds, n \in Names, m \in Names :
          StartRegister(r, n, m) /\ UNCHANGED <<wvars, lvars, cvars, vvars>>
    \/ \E r \in RegisterIds : RegisterUsernameExists(r) /\ UNCHANGED <<wvars, lvars, cvars, vvars>>
    \/ \E r \in RegisterIds : RegisterEmailExists(r) /\ UNCHANGED <<wvars, lvars, cvars, vvars>>
    \/ \E r \in RegisterIds : CreateUserUsername(r) /\ UNCHANGED <<wvars, lvars, cvars, vvars>>
    \/ \E r \in RegisterIds : CreateUserEmail(r) /\ UNCHANGED <<wvars, lvars, cvars, vvars>>
    \/ \E r \in RegisterIds : CreateUserSave(r) /\ UNCHANGED <<wvars, lvars, cvars, vvars>>
    \/ \E r \in RegisterIds : RegisterRespond(r) /\ UNCHANGED <<wvars, lvars, cvars, vvars>>

SpecRegister == Init /\ [][NextRegister]_vars

\* ------------------------------ a post detail read between comment writes

\* a client that sends one comment request at a time (create, reply, update,
\* delete) and, between them, asks as a guest for the detail of a post
NextDetailComments ==
    \/ \E r \in WriterIds, u \in Users, p \in PostIds, a \in BOOLEAN :
          AllViewersIdle /\ SendComment(r, u, p, {}, a)
             /\ UNCHANGED <<wvars, uvars, lvars, vvars>>
    \/ \E r \in WriterIds, u \in Users, p \in PostIds, c \in CommentIds, a \in BOOLEAN :
          AllViewersIdle /\ SendReply(r, u, p, c, a)
             /\ UNCHANGED <<wvars, uvars, lvars, vvars>>
    \/ \E r \in WriterIds : CommentRouterCheck(r) /\ UNCHANGED <<wvars, uvars, lvars, csnap, vvars>>
    \/ \E r \in WriterIds : CommentCrudCheck(r) /\ UNCHANGED <<wvars, uvars, lvars, csnap, vvars>>
    \/ \E r \in WriterIds : CommentParentCheck(r) /\ UNCHANGED <<wvars, uvars, lvars, csnap, vvars>>
    \/ \E r \in WriterIds : CommentSave(r) /\ UNCHANGED <<wvars, uvars, lvars, csnap, vvars>>
    \/ \E r \in WriterIds, u \in Users, c \in CommentIds, a \in BOOLEAN :
          AllViewersIdle /\ SendUpdateComment(r, u, c, a)
             /\ UNCHANGED <<wvars, uvars, lvars, vvars>>
    \/ \E r \in WriterIds : UpdateCommentGet(r) /\ UNCHANGED <<wvars, uvars, lvars, csnap, vvars>>
    \/ \E r \in WriterIds : UpdateCommentSave(r) /\ UNCHANGED <<wvars, uvars, lvars, csnap, vvars>>
    \/ \E r \in WriterIds, u \in Users, c \in CommentIds :
          AllViewersIdle /\ SendDeleteComment(r, u, TRUE, c)
             /\ UNCHANGED <<wvars, uvars, lvars, vvars>>
    \/ \E r \in WriterIds : DeleteCommentGet(r) /\ UNCHANGED <<wvars, uvars, lvars, csnap, vvars>>
    \/ \E r \in WriterIds : DeleteCommentReplies(r) /\ UNCHANGED <<wvars, uvars, lvars, csnap, vvars>>
    \/ \E r \in WriterIds : DeleteCommentSelf(r) /\ UNCHANGED <<wvars, uvars, lvars, csnap, vvars>>
    \/ \E r \in WriterIds : ReceiveComment(r) /\ UNCHANGED <<wvars, uvars, lvars, vvars>>
    \/ \E r \in ViewerIds, p \in PostIds :
          NoWriter /\ AllViewersIdle /\ StartDetail(r, {}, 1, p)
             /\ UNCHANGED <<wvars, uvars, vlog, lvars, cvars>>
    \/ \E r \in ViewerIds : DetailGetPost(r) /\ UNCHANGED <<wvars, uvars, vlog, lvars, cvars>>
    \/ \E r \in ViewerIds : RecordViewExists(r) /\ UNCHANGED <<wvars, uvars, vlog, lvars, cvars>>
    \/ \E r \in ViewerIds : RecordViewSave(r) /\ UNCHANGED <<wvars, uvars, vlog, lvars, cvars>>
    \/ \E r \in ViewerIds : DetailLikesCount(r) /\ UNCHANGED <<wvars, uvars, vlog, lvars, cvars>>
    \/ \E r \in ViewerIds : DetailDislikesCount(r) /\ UNCHANGED <<wvars, uvars, vlog, lvars, cvars>>
    \/ \E r \in ViewerIds : DetailCommentsCount(r) /\ UNCHANGED <<wvars, uvars, vlog, lvars, cvars>>
    \/ \E r \in ViewerIds : DetailViewsCount(r) /\ UNCHANGED <<wvars, uvars, vlog, lvars, cvars>>
    \/ \E r \in ViewerIds : DetailGetPostComments(r) /\ UNCHANGED <<wvars, uvars, vlog, lvars, cvars>>
    \/ \E r \in ViewerIds : DetailBuild(r) /\ UNCHANGED <<wvars, uvars, vlog, lvars, cvars>>
    \/ \E r \in ViewerIds : DetailRespond(r) /\ UNCHANGED <<wvars, uvars, vlog, lvars, cvars>>
    \/ NoWriter /\ AllViewersIdle /\ CreatePost /\ UNCHANGED <<wvars, uvars, log, cvars, vvars>>

SpecDetailComments == Init /\ [][NextDetailComments]_vars

\* ------------------------------------------------------------- the claims

\* an entry of the client's log whose response has arrived
Closed(e) == e.status # 0

\* the reaction rows of the entry's user on the entry's post, among rows
Own(e, rows) == UserLikes(rows, e.user_id, e.post_id)

\* the entry is a toggle call, answered, on a post that existed when sent
ToggleOnPost(e) == e.op = "toggle" /\ Closed(e) /\ e.post_state # "absent"

\* C1: with no concurrent request, toggle_like(u, p, X) on an existing post
\* for which u holds no reaction row creates exactly one row (u, p, X),
\* touches no other row, and returns liked = true.
C1_ToggleCreates ==
    \A i \in DOMAIN log :
       LET e == log[i] IN
       (ToggleOnPost(e) /\ Own(e, e.before) = {})
         => /\ e.status = 200
            /\ e.liked
            /\ \E row \in e.after :
                  /\ row.user_id = e.user_id
                  /\ row.post_id = e.post_id
                  /\ row.is_like = e.is_like
                  /\ row \notin e.before
                  /\ e.after = e.before \cup {row}

\* C1 witness: a dislike toggle from "no reaction" was answered
C1_Witness ==
    \E i \in DOMAIN log :
       /\ ToggleOnPost(log[i])
       /\ Own(log[i], log[i].before) = {}
       /\ ~log[i].is_like
       /\ log[i].before # {}

\* two consecutive calls of the client: the same toggle, twice
SameToggleTwice(a, b) ==
    /\ ToggleOnPost(a) /\ ToggleOnPost(b)
    /\ a.user_id = b.user_id /\ a.post_id = b.post_id /\ a.is_like = b.is_like

\* C2: with no concurrent request, starting from no reaction of u on p, two
\* consecutive toggle_like(u, p, X) end with no row for (u, p): the second
\* call deletes the row the first one created and returns liked = false.
C2_ToggleTwice ==
    \A i \in DOMAIN log :
       (i + 1 \in DOMAIN log /\ SameToggleTwice(log[i], log[i + 1])
          /\ Own(log[i], log[i].before) = {})
         => LET a == log[i]
                b == log[i + 1]
            IN
            /\ b.status = 200
            /\ ~b.liked
            /\ Own(b, b.after) = {}
            /\ Own(a, a.after) # {}
            /\ b.after = b.before \ Own(a, a.after)

\* C2 witness: the same toggle was answered twice in a row, from no reaction
C2_Witness ==
    \E i \in DOMAIN log :
       /\ i + 1 \in DOMAIN log
       /\ SameToggleTwice(log[i], log[i + 1])
       /\ Own(log[i], log[i].before) = {}
       /\ log[i + 1].before \ Own(log[i], log[i].after) # {}

\* C3: with no concurrent request, toggle_like(u, p, Y) while u holds a row
\* with is_like = X, X # Y, changes that row's is_like to Y in place (same
\* id, no row created or deleted) and returns liked = true.
C3_ToggleFlips ==
    \A i \in DOMAIN log :
       LET e == log[i] IN
       \A row \in Own(e, e.before) :
          (ToggleOnPost(e) /\ Own(e, e.before) = {row} /\ row.is_like # e.is_like)
            => /\ e.status = 200
               /\ e.liked
               /\ e.after = (e.before \ {row}) \cup {[row EXCEPT !.is_like = e.is_like]}
               /\ Cardinality(Own(e, e.after)) = 1

\* C3 witness: a flip was answered
C3_Witness ==
    \E i \in DOMAIN log :
       /\ ToggleOnPost(log[i])
       /\ \E row \in Own(log[i], log[i].before) : row.is_like # log[i].is_like

\* what toggle_like returned
Returned(e) == <<e.liked, e.likes_count, e.dislikes_count>>

\* the client's log is: A like, A like, A dislike, B like, all on post p,
\* which had no reaction at first
Scenario(A, B, p) ==
    /\ Len(log) = 4
    /\ \A i \in 1..4 : ToggleOnPost(log[i]) /\ log[i].post_id = p
    /\ log[1].before = {}
    /\ log[1].user_id = A /\ log[1].is_like
    /\ log[2].user_id = A /\ log[2].is_like
    /\ log[3].user_id = A /\ ~log[3].is_like
    /\ log[4].user_id = B /\ log[4].is_like

\* C4: with no concurrent request, the counts toggle_like returns are the
\* numbers of rows of the post with is_like true and false after the
\* mutation; and A like, A like, A dislike, B like on one post returns
\* (true,1,0), (false,0,0), (true,0,1), (true,1,1).
C4_CountsAfterMutation ==
    /\ \A i \in DOMAIN log :
          (log[i].op = "toggle" /\ log[i].status = 200)
            => /\ log[i].likes_count = Cardinality({l \in log[i].after : l.is_like})
               /\ log[i].dislikes_count = Cardinality({l \in log[i].after : ~l.is_like})
    /\ \A A \in Users, B \in Users, p \in PostIds :
          (A # B /\ Scenario(A, B, p))
            => /\ Returned(log[1]) = <<TRUE, 1, 0>>
               /\ Returned(log[2]) = <<FALSE, 0, 0>>
               /\ Returned(log[3]) = <<TRUE, 0, 1>>
               /\ Returned(log[4]) = <<TRUE, 1, 1>>

\* C4 witness: the four calls of the scenario were answered
C4_Witness == \E A \in Users, B \in Users, p \in PostIds : A # B /\ Scenario(A, B, p)

\* C5: no two reaction rows share (user_id, post_id), under any interleaving
\* of toggle_like and create_like requests.
C5_UniqueReaction ==
    \A l1 \in likes, l2 \in likes :
       (l1.user_id = l2.user_id /\ l1.post_id = l2.post_id) => l1 = l2

\* the toggle request r, which read "no existing reaction", is about to save
\* its new row while a row of the same (user, post) is stored: the insert
\* that the uniqueness constraint has to refuse
InsertConflicts(r) ==
    /\ req[r].op = "toggle"
    /\ req[r].pc = "mutate"
    /\ req[r].existing = {}
    /\ UserLikes(likes, req[r].user_id, req[r].post_id) # {}

\* C6: when the insert of a toggle call conflicts with the row a concurrent
\* call created, the losing call re-derives the state and retries the
\* toggle decision: its step leaves at most one row for (user, post), and
\* the request does not end in an error.
C6_ConflictRetried ==
    [][\A r \in ReqIds :
          (InsertConflicts(r) /\ req'[r] # req[r])
            => /\ Cardinality(UserLikes(likes', req[r].user_id, req[r].post_id)) <= 1
               /\ req'[r].status # 500]_vars

\* C7: for every post, likes_count + dislikes_count never exceeds the number
\* of distinct users who hold a reaction on the post.
C7_CountsWithinUsers ==
    \A p \in PostIds :
       LikesCount(likes, p, TRUE) + LikesCount(likes, p, FALSE)
         <= Cardinality({l.user_id : l \in PostLikes(likes, p)})

\* C8: a toggle or create-like request that finds its post missing, at the
\* router's check or at the CRUD function's check, ends with 404 and leaves
\* the reaction rows as they are.
C8_MissingPostIs404 ==
    [][\A r \in ReqIds :
          (/\ req[r].pc \in {"router_check", "crud_check"}
           /\ ~PostExists(req[r].post_id)
           /\ req'[r] # req[r])
            => /\ req'[r].pc = "done"
               /\ req'[r].status = 404
               /\ likes' = likes]_vars

\* C9: a toggle request on a post that exists with is_active = false fails
\* with NotFound and creates, flips or deletes no reaction row.
C9_InactivePostRejected ==
    \A i \in DOMAIN log :
       (log[i].op = "toggle" /\ Closed(log[i]) /\ log[i].post_state = "inactive")
         => /\ log[i].status = 404
            /\ log[i].after = log[i].before

\* the tree a finished GET /comments/post/{post_id} returns
TreeReturned == treq.pc = "done" /\ treq.status = 200

\* C10: the comment tree returned by get_post_comments followed by
\* build_comment_tree lists the top-level comments in descending order of
\* created, each node's replies in ascending order of created, and every
\* reply node has an empty replies list.
C10_TreeOrdered ==
    TreeReturned =>
      LET t == treq.result IN
      /\ \A i \in 1..(Len(t) - 1) : t[i].created >= t[i + 1].created
      /\ \A i \in 1..Len(t) :
            /\ \A j \in 1..(Len(t[i].replies) - 1) :
                  t[i].replies[j].created <= t[i].replies[j + 1].created
            /\ \A j \in 1..Len(t[i].replies) : t[i].replies[j].replies = <<>>

\* C10 witness: a returned tree with two top-level comments of different
\* created, one of them with a reply
C10_Witness ==
    /\ TreeReturned
    /\ Len(treq.result) = 2
    /\ treq.result[1].created > treq.result[2].created
    /\ \E i \in 1..2 : Len(treq.result[i].replies) = 1

\* a returned tree with one top-level comment and two replies of different
\* created
TreeWithTwoReplies ==
    /\ TreeReturned
    /\ Len(treq.result) = 1
    /\ Len(treq.result[1].replies) = 2
    /\ treq.result[1].replies[1].created < treq.result[1].replies[2].created

\* the ids a list of tree nodes carries, with their numbers of occurrences
Occurrences(nodes, id) == Cardinality({i \in 1..Len(nodes) : nodes[i].id = id})

\* C11: every node of the returned comment tree, top-level or reply, has
\* is_active = true; every active top-level comment of the post appears
\* exactly once at the top level, and every active comment whose parent is
\* that top-level comment appears exactly once in its replies.
C11_TreeActiveComplete ==
    TreeReturned =>
      LET t == treq.result IN
      /\ \A i \in 1..Len(t) :
            /\ t[i].is_active
            /\ \A j \in 1..Len(t[i].replies) : t[i].replies[j].is_active
      /\ \A c \in comment :
            (c.post_id = treq.post_id /\ c.is_active /\ ParentOf(c) = {})
              => Occurrences(t, c.id) = 1
      /\ \A i \in 1..Len(t) : \A c \in comment :
            (c.is_active /\ ParentOf(c) = {t[i].id})
              => Occurrences(t[i].replies, c.id) = 1

\* C11 witness: a returned tree of one top-level comment with one reply,
\* while an inactive reply to that comment is stored
C11_Witness ==
    /\ TreeReturned
    /\ Len(treq.result) = 1
    /\ Len(treq.result[1].replies) = 1
    /\ \E c \in comment : ~c.is_active /\ ParentOf(c) = {treq.result[1].id}

\* C12: every comment with a non-null parent_id has a parent whose own
\* parent_id is null: a reply to a reply is never stored.
C12_ReplyDepthOne ==
    \A c \in comment : \A x \in comment :
       ParentOf(c) = {x.id} => ParentOf(x) = {}

DeleteAnswered(r) == creq[r].op = "delete" /\ creq[r].pc = "done"

\* C14: after a successful delete_comment(c), neither c nor any comment
\* whose parent_id is c remains stored, whoever authored those replies.
C14_DeleteCascades ==
    \A r \in WriterIds :
       (DeleteAnswered(r) /\ creq[r].status = 204)
         => \A x \in comment :
               x.id # creq[r].comment_id /\ ParentOf(x) # {creq[r].comment_id}

\* C14 witness: a user who is not staff deleted their comment, which had a
\* reply written by somebody else
C14_Witness ==
    \E r \in WriterIds :
       /\ DeleteAnswered(r) /\ creq[r].status = 204 /\ ~creq[r].is_staff
       /\ \E x \in csnap :
             ParentOf(x) = {creq[r].comment_id} /\ x.user_id # creq[r].user_id

\* the comment a delete request names, as stored when the request was sent
Named(r) == {x \in csnap : x.id = creq[r].comment_id}

\* C15: delete_comment(c, user, is_staff) called by a user who is neither
\* the author of c nor staff returns false (answered 404) and deletes
\* nothing; only the author or a staff user makes the call succeed.
C15_DeleteNeedsOwner ==
    \A r \in WriterIds :
       DeleteAnswered(r) =>
          /\ (~creq[r].is_staff /\ \A x \in Named(r) : x.user_id # creq[r].user_id)
                => (creq[r].status = 404 /\ comment = csnap)
          /\ creq[r].status = 204
                => \E x \in Named(r) : creq[r].is_staff \/ x.user_id = creq[r].user_id

\* C15 witness: somebody else's comment, which has a reply, was named by a
\* user who is not staff, and the request was answered
C15_Witness ==
    \E r \in WriterIds :
       /\ DeleteAnswered(r) /\ ~creq[r].is_staff
       /\ \E x \in Named(r) : x.user_id # creq[r].user_id
       /\ \E y \in csnap : ParentOf(y) = {creq[r].comment_id}

\* the refusal seen step by step, whatever else is in flight: the step of
\* delete_comment that fetches the comment ends the request with 404 and
\* leaves the table alone unless the requester is staff or the author, and
\* goes on to the deletes only for staff or the author
DeleteRefusalStep ==
    [][\A r \in WriterIds :
          (creq[r].pc = "delete_get" /\ creq'[r] # creq[r])
            => LET mine == \E x \in comment :
                              /\ x.id = creq[r].comment_id
                              /\ (creq[r].is_staff \/ x.user_id = creq[r].user_id)
               IN IF mine THEN creq'[r].pc = "delete_replies"
                  ELSE /\ creq'[r].pc = "done" /\ creq'[r].status = 404
                       /\ comment' = comment]_vars

\* an entry of the view client's log whose request returned the post detail
Detailed(e) == e.status = 200

\* the view rows of the entry's post and viewer (a user, or NULL for a
\* guest), among rows
SameViewer(e, rows) == {v \in rows : v.post_id = e.post_id /\ v.user_id = e.user_id}

\* the view rows of the entry's post and IP address, among rows
SameIp(e, rows) == {v \in rows : v.post_id = e.post_id /\ v.ip_address = e.ip_address}

\* the row is no older than the window when the entry's request was sent
Recent(e, v) == e.at - v.created <= Window

\* the request of the entry inserted exactly one row, its own
ViewInserted(e) ==
    \E row \in e.after :
       /\ row \notin e.before
       /\ e.after = e.before \cup {row}
       /\ row.post_id = e.post_id /\ row.user_id = e.user_id
       /\ row.ip_address = e.ip_address /\ row.created = e.at

\* C16: for one post and one logged-in user, one request at a time: the
\* first record_view returns true, a record_view within one hour of a
\* recorded row returns false and inserts no row, and a record_view more than
\* one hour after the last recorded row returns true and inserts a row.
C16_UserWindow ==
    \A i \in DOMAIN vlog :
       LET e == vlog[i]
           mine == SameViewer(e, e.before)
       IN
       (Detailed(e) /\ e.user_id # {}) =>
          /\ mine = {} => (e.recorded = "true" /\ ViewInserted(e))
          /\ (\E v \in mine : Recent(e, v))
                => (e.recorded = "false" /\ e.after = e.before)
          /\ (mine # {} /\ \A v \in mine : ~Recent(e, v))
                => (e.recorded = "true" /\ ViewInserted(e))

\* C16 witness: three requests of one user for one post answered true,
\* false, true
C16_Witness ==
    /\ Len(vlog) = 3
    /\ \A i \in 1..3 : Detailed(vlog[i]) /\ vlog[i].user_id = vlog[1].user_id
                       /\ vlog[i].post_id = vlog[1].post_id
    /\ vlog[1].user_id # {}
    /\ vlog[1].recorded = "true" /\ vlog[2].recorded = "false"
    /\ vlog[3].recorded = "true"

\* C17: when user_id is present record_view deduplicates on (post_id,
\* user_id) only: a recent row of the same user suppresses the view whatever
\* its IP address, and without one the view is recorded whatever recent rows
\* of other users or of guests share the IP address.
C17_UserKeyOnly ==
    \A i \in DOMAIN vlog :
       LET e == vlog[i] IN
       (Detailed(e) /\ e.user_id # {}) =>
          /\ \A v \in SameViewer(e, e.before) :
                (Recent(e, v) /\ v.ip_address # e.ip_address) => e.recorded = "false"
          /\ \A v \in SameIp(e, e.before) :
                (/\ Recent(e, v) /\ v.user_id # e.user_id
                 /\ \A w \in SameViewer(e, e.before) : ~Recent(e, w))
                  => e.recorded = "true"

\* C17 witness: one view of a user was suppressed by a row from another IP
\* address only, and one first view of a user was recorded while a recent
\* row of somebody else shared its IP address
C17_Witness ==
    /\ \E i \in DOMAIN vlog :
          /\ Detailed(vlog[i]) /\ vlog[i].user_id # {}
          /\ vlog[i].recorded = "false"
          /\ \A v \in SameViewer(vlog[i], vlog[i].before) :
                v.ip_address # vlog[i].ip_address
    /\ \E i \in DOMAIN vlog :
          /\ Detailed(vlog[i]) /\ vlog[i].user_id # {}
          /\ vlog[i].recorded = "true"
          /\ \E v \in SameIp(vlog[i], vlog[i].before) : Recent(vlog[i], v)

\* two consecutive requests of a guest for the same post from the same IP
\* address, the second within the window of the first
GuestTwice(a, b) ==
    /\ Detailed(a) /\ Detailed(b)
    /\ a.user_id = {} /\ b.user_id = {}
    /\ a.post_id = b.post_id /\ a.ip_address = b.ip_address
    /\ b.at - a.at <= Window

\* C18, as stated: for a guest, two record_view calls for the same post from
\* the same IP address within the window: the second returns false and the
\* row count of the post's views grows by exactly one over the two calls.
\* The two calls are read as the guest's first two: no view row of a guest
\* for the post from that IP address is within the window at the first call.
C18_GuestTwiceCountsOnce ==
    \A i \in DOMAIN vlog :
       (/\ i + 1 \in DOMAIN vlog /\ GuestTwice(vlog[i], vlog[i + 1])
        /\ \A v \in SameIp(vlog[i], vlog[i].before) :
              v.user_id = {} => ~Recent(vlog[i], v))
         => /\ vlog[i + 1].recorded = "false"
            /\ GetViewCount(vlog[i + 1].after, vlog[i].post_id)
                 = GetViewCount(vlog[i].before, vlog[i].post_id) + 1

\* C18, amended: the same, when no view row of the post from that IP address
\* (of a guest or of a logged-in user) is within the window at the first
\* call; then the first call returns true and the second false.
C18_FreshGuestTwiceCountsOnce ==
    \A i \in DOMAIN vlog :
       (/\ i + 1 \in DOMAIN vlog /\ GuestTwice(vlog[i], vlog[i + 1])
        /\ \A v \in SameIp(vlog[i], vlog[i].before) : ~Recent(vlog[i], v))
         => /\ vlog[i].recorded = "true"
            /\ vlog[i + 1].recorded = "false"
            /\ GetViewCount(vlog[i + 1].after, vlog[i].post_id)
                 = GetViewCount(vlog[i].before, vlog[i].post_id) + 1

\* C18 witness: a guest asked twice within the window, half an hour apart,
\* after the post had already been viewed from another IP address
C18_Witness ==
    \E i \in DOMAIN vlog :
       /\ i + 1 \in DOMAIN vlog /\ GuestTwice(vlog[i], vlog[i + 1])
       /\ \A v \in SameIp(vlog[i], vlog[i].before) : ~Recent(vlog[i], v)
       /\ vlog[i + 1].at > vlog[i].at
       /\ vlog[i].before # {}

\* C19: get_post_detail for a post that is missing or has is_active = false
\* returns NotFound (404) and records no view row.
C19_NoDetailNoView ==
    \A i \in DOMAIN vlog :
       (vlog[i].status # 0 /\ vlog[i].post_state \in {"absent", "inactive"})
         => /\ vlog[i].status = 404
            /\ vlog[i].recorded = "none"
            /\ vlog[i].after = vlog[i].before

\* C19 witness: a request for an inactive post that already had a view row
\* was answered, and so was a request for a missing post
C19_Witness ==
    /\ \E i \in DOMAIN vlog :
          /\ vlog[i].status # 0 /\ vlog[i].post_state = "inactive"
          /\ SameIp(vlog[i], vlog[i].before) # {}
    /\ \E i \in DOMAIN vlog : vlog[i].status # 0 /\ vlog[i].post_state = "absent"

\* C20: when the storage call of record_view raises inside get_post_detail,
\* the failure is swallowed: the request goes on to the counts and does not
\* end in an error.
C20_ViewFailureSwallowed ==
    [][\A r \in ViewerIds :
          (/\ vreq[r].pc = "record_save"
           /\ ~PostExists(vreq[r].post_id)
           /\ vreq'[r] # vreq[r])
            => /\ vreq'[r].pc = "likes_count"
               /\ vreq'[r].status # 500]_vars

\* the steps of get_post_detail in the order of its awaits: the view record,
\* the four counts with the user's reaction, the comment tree
Stage(pc) ==
    CASE pc \in {"record_exists", "record_save"} -> 1
      [] pc \in {"likes_count", "dislikes_count", "comments_count",
                 "views_count", "user_like"} -> 2
      [] pc \in {"get_post_comments", "build"} -> 3
      [] OTHER -> 0

\* within one request the storage operations never go back: a step of a
\* running get_post_detail stays in its stage or moves to a later one
DetailStagesInOrder ==
    [][\A r \in ViewerIds :
          (Stage(vreq[r].pc) > 0 /\ vreq'[r].pc \notin {"done", "idle"})
            => Stage(vreq'[r].pc) >= Stage(vreq[r].pc)]_vars

\* C21: one request at a time, a get_post_detail that recorded a new view
\* counts the views after it: the views_count of its response includes the
\* row it inserted, so it is the count before the request plus one, and at
\* least 1.
C21_OwnViewCounted ==
    \A i \in DOMAIN vlog :
       LET e == vlog[i] IN
       (Detailed(e) /\ e.recorded = "true")
         => /\ ViewInserted(e)
            /\ e.views_count >= 1
            /\ e.views_count = GetViewCount(e.before, e.post_id) + 1
            /\ e.views_count = GetViewCount(e.after, e.post_id)

\* C21 witness: a request recorded the second view of its post and returned
\* the detail
C21_Witness ==
    \E i \in DOMAIN vlog :
       /\ Detailed(vlog[i]) /\ vlog[i].recorded = "true"
       /\ GetViewCount(vlog[i].before, vlog[i].post_id) = 1

\* with a concurrent delete_post the same need not hold: whether every
\* running request that recorded a view and has counted the views holds a
\* views_count of at least 1
OwnViewCountedWhileRunning ==
    \A r \in ViewerIds :
       (vreq[r].recorded = "true"
        /\ (Stage(vreq[r].pc) = 3 \/ vreq[r].pc = "user_like"
            \/ (vreq[r].pc = "done" /\ vreq[r].status = 200)))
         => vreq[r].views_count >= 1

\* a detail request has returned its PostDetail
DetailReturned(r) == vreq[r].pc = "done" /\ vreq[r].status = 200

\* the likes and dislikes counts of the response agree with user_liked
CountsAgree(r) ==
    /\ vreq[r].user_liked = {TRUE} => vreq[r].likes_count >= 1
    /\ vreq[r].user_liked = {FALSE} => vreq[r].dislikes_count >= 1

\* the three reads of the reaction table saw the same rows
SameLikesSeen == Len(vlog) = 3 /\ vlog[1] = vlog[2] /\ vlog[2] = vlog[3]

\* C22, as stated: also while toggle requests run, every returned PostDetail
\* has user_liked = true only with likes_count >= 1 and user_liked = false
\* only with dislikes_count >= 1.
C22_SubFetchesAgree ==
    \A r \in ViewerIds : DetailReturned(r) => CountsAgree(r)

\* C22, amended: the same for every returned PostDetail whose reads of the
\* reaction table (likes count, dislikes count, the user's reaction) saw the
\* same rows of the post, that is when no toggle changed them in between.
C22_SubFetchesAgreeWhenUnchanged ==
    \A r \in ViewerIds : (DetailReturned(r) /\ SameLikesSeen) => CountsAgree(r)

\* C22 witness: a PostDetail with the requester's dislike was returned, its
\* reads having seen the same rows, while a toggle request was in flight
C22_Witness ==
    \E r \in ViewerIds :
       /\ DetailReturned(r) /\ SameLikesSeen
       /\ vreq[r].user_liked = {FALSE}
       /\ ~AllIdle

\* C23: a delivery failure during notify_new_post or notify_new_comment
\* never fails the triggering request, also while connections are added or
\* removed: the request that created the post or comment returns it (201)
\* and never ends in an error.
C23_NotifyNeverFails ==
    nreq.pc = "done" => nreq.status = 201

\* a send that fails is swallowed as long as no connection is added or
\* removed while the notification is sent
SendFailureSwallowed ==
    [][(nreq.pc = "sending" /\ ~nreq.touched /\ nreq'.pc = "done")
          => nreq'.status = 201]_vars

\* C30: every websocket stored in active_connections[user] is also in
\* all_connections, and active_connections maps no user to an empty set.
C30_ConnectionsTracked ==
    \A u \in DOMAIN active_connections :
       /\ active_connections[u] \subseteq all_connections
       /\ active_connections[u] # {}

\* the second half of C30 alone
NoEmptyKey == \A u \in DOMAIN active_connections : active_connections[u] # {}

\* no two users share a username or an email
UsersUnique ==
    \A a \in users, b \in users :
       a # b => (a.username # b.username /\ a.email # b.email)

\* a registration whose username or email was registered when it arrived is
\* answered 400 and creates no user
TakenRejected ==
    \A r \in RegisterIds :
       (ureq[r].pc = "done" /\ ureq[r].taken)
         => (ureq[r].status = 400 /\ ureq[r].created = 0)

\* another user holds the username or the email of the request
HeldByAnother(r) ==
    \E row \in users :
       /\ row.id # ureq[r].created
       /\ (row.username = ureq[r].username \/ row.email = ureq[r].email)

\* C25: a registration whose username or email is already registered is
\* rejected with 400 and creates no user, and no two users share a username
\* or an email, also when registrations with the same username or email run
\* concurrently.
C25_DuplicateRejected ==
    /\ UsersUnique
    /\ \A r \in RegisterIds :
          (ureq[r].pc = "done" /\ HeldByAnother(r))
            => (ureq[r].status = 400 /\ ureq[r].created = 0)

\* an answered post-detail request that carried no authentication
GuestAnswered(e) == e.status # 0 /\ e.user_id = {}

SameIdentity(a, b) ==
    /\ a # b /\ a.post_id = b.post_id
    /\ \/ a.user_id # {} /\ a.user_id = b.user_id
       \/ a.user_id = {} /\ b.user_id = {} /\ a.ip_address = b.ip_address

\* C26: under any interleaving of concurrent record_view calls, no two view
\* rows of the same post and dedup identity are created less than one hour
\* apart.
C26_NoNearDuplicates ==
    \A a \in view, b \in view :
       (SameIdentity(a, b) /\ a.created <= b.created)
         => b.created - a.created >= Window

\* the view rows of the entry's post and dedup identity among rows: the
\* rows of the user, or the rows of guests from the IP address
IdentityRows(e, rows) ==
    {v \in SameViewer(e, rows) : e.user_id # {} \/ v.ip_address = e.ip_address}

\* C28: the window boundary is inclusive: record_view returns false and
\* inserts nothing when a view row of the same post and identity has
\* created >= now - 1 hour, a row created exactly one hour ago included, and
\* returns true only when every such row is strictly older than one hour.
C28_BoundaryInclusive ==
    \A i \in DOMAIN vlog :
       LET e == vlog[i]
           mine == IdentityRows(e, e.before)
       IN
       Detailed(e) =>
          /\ (\E v \in mine : v.created >= e.at - Window)
                => (e.recorded = "false" /\ e.after = e.before)
          /\ e.recorded = "true"
                => (ViewInserted(e) /\ \A v \in mine : v.created < e.at - Window)

\* C28 witness: a view was suppressed by a row created exactly one hour
\* before and by no younger one, and a later view of the same identity, with
\* that row older than one hour, was recorded
C28_Witness ==
    \E i \in DOMAIN vlog, j \in DOMAIN vlog :
       /\ i < j /\ Detailed(vlog[i]) /\ Detailed(vlog[j])
       /\ IdentityRows(vlog[i], vlog[i].before) # {}
       /\ \A v \in IdentityRows(vlog[i], vlog[i].before) :
             v.created = vlog[i].at - Window
       /\ vlog[i].recorded = "false"
       /\ IdentityRows(vlog[j], vlog[j].before) = IdentityRows(vlog[i], vlog[i].before)
       /\ vlog[j].recorded = "true"

\* the top-level comments at the head of the chain of parents of a comment
RECURSIVE TopOf(_)
TopOf(c) ==
    IF ParentOf(c) = {} THEN {c}
    ELSE UNION {TopOf(x) : x \in {y \in comment : ParentOf(c) = {y.id}}}

\* C27: an active comment whose parent is itself a reply appears in the
\* returned comment tree, among the replies of its nearest top-level
\* ancestor (when that ancestor is in the tree).
C27_DeepRepliesFlattened ==
    TreeReturned =>
      \A c \in comment : \A x \in comment :
         (/\ c.post_id = treq.post_id /\ c.is_active
          /\ ParentOf(c) = {x.id} /\ ParentOf(x) # {})
           => \A a \in TopOf(x) :
                 \A i \in 1..Len(treq.result) :
                    treq.result[i].id = a.id
                      => Occurrences(treq.result[i].replies, c.id) = 1

\* the number of nodes of a comment tree: its top-level nodes and their
\* replies
RECURSIVE TreeSize(_)
TreeSize(t) ==
    IF t = <<>> THEN 0 ELSE 1 + Len(Head(t).replies) + TreeSize(Tail(t))

\* the active comments of post p that are replies and whose parent is
\* inactive, missing or not top-level
Hidden(p) ==
    {c \in comment :
       /\ c.post_id = p /\ c.is_active /\ ParentOf(c) # {}
       /\ ~\E x \in comment : ParentOf(c) = {x.id} /\ x.is_active /\ ParentOf(x) = {}}

\* C29: in every PostDetail computed without concurrent writes,
\* comments_count is at least the number of nodes of the returned comment
\* tree, and exceeds it by the number of active comments whose parent is
\* inactive, missing or not top-level.
C29_CountCoversTree ==
    \A r \in ViewerIds :
       DetailReturned(r) =>
          /\ vreq[r].comments_count >= TreeSize(vreq[r].tree)
          /\ vreq[r].comments_count - TreeSize(vreq[r].tree)
               = Cardinality(Hidden(vreq[r].post_id))

\* C29 witness: a PostDetail was returned with a tree of two nodes and a
\* comments_count of 3, the third comment being a reply to the reply
C29_Witness ==
    \E r \in ViewerIds :
       /\ DetailReturned(r)
       /\ TreeSize(vreq[r].tree) = 2 /\ vreq[r].comments_count = 3
       /\ \E c \in Hidden(vreq[r].post_id) : \E x \in comment :
             ParentOf(c) = {x.id} /\ ParentOf(x) # {}

\* the other two cases of C29: a returned PostDetail that leaves out an
\* active comment whose parent is missing, or one whose parent is inactive
MissingParentSeen ==
    \E r \in ViewerIds :
       /\ DetailReturned(r)
       /\ \E c \in Hidden(vreq[r].post_id) : \A x \in comment : ParentOf(c) # {x.id}

InactiveParentSeen ==
    \E r \in ViewerIds :
       /\ DetailReturned(r)
       /\ \E c \in Hidden(vreq[r].post_id) : \E x \in comment :
             ParentOf(c) = {x.id} /\ ~x.is_active /\ ParentOf(x) = {}

====
